---- MODULE Spec2Model ----
(***************************************************************************)
(* A model of the screenshot-analysis tool of batihandev/ai-tools:         *)
(*                                                                         *)
(*   - the adaptive inference client, scripts/helper/vlm.py                *)
(*     (ollama_chat_with_images: scale ladder, batch halving, endpoint     *)
(*     fallback, output validation), specification Spec;                   *)
(*   - mirror-directory pruning, scripts/screen_explain.py and             *)
(*     scripts/screen-explain.py (_prune_mirror_dir), specification        *)
(*     SpecPrune;                                                          *)
(*   - the cache around the client, main() of both scripts (fast key,      *)
(*     mirror, content key, inference, commit), specification SpecMain,    *)
(*     and SpecDisk on a cache directory left by earlier invocations;      *)
(*   - writing a file of the cache, scripts/helper/utils.py                *)
(*     (atomic_write_text) and write_text, specification SpecWrite;        *)
(*   - image resizing and snapping, vlm.py (_resize_percent_and_snap),     *)
(*     specification SpecImg;                                              *)
(*   - the spinner, scripts/helper/spinner.py (with_spinner),              *)
(*     specification SpecSp;                                               *)
(*   - pruning beside another process deleting mirror files,               *)
(*     specification SpecPr;                                               *)
(*   - main() on a mirror directory that is full or on an image above the  *)
(*     byte cap, specification SpecFull;                                   *)
(*   - the text-correction cache, scripts/helper/cache_helper.py           *)
(*     (CorrectionCache), specification SpecCc.                            *)
(*                                                                         *)
(* Fault model: the backend and image decoding fail nondeterministically;  *)
(* writes to the tool's own log directory (the unusable-output log, the    *)
(* mirror, the index and the result files) and unlink of an existing       *)
(* mirror file by the only process in the directory succeed.               *)
(***************************************************************************)
EXTENDS Integers, Sequences, FiniteSets, TLC

VARIABLES
    \* ---- inference client (vlm.py) ----
    cfg,            \* arguments and environment of the invocation
    pc,             \* "loop" | "returned" | "raised"
    scale_idx,      \* 1-based index into the ladder (scale_idx in the code, 0-based)
    current_batch,  \* current_batch (0: unset, the backend default is used)
    last_err,       \* last_err: NoErr or [e, id]
    outcome,        \* what the call returned or raised
    used,           \* history: <<[scale, batch]>> of every loop iteration
    att,            \* history: the last loop iteration
    unusable_log,   \* logs/unusable_outputs.log: [n: lines written, last: the last line]
    \* ---- mirror directory and cache (screen_explain.py, screen-explain.py) ----
    mirror,         \* MIRROR_DIR: set of [name, size, mtime, data]
    prune_op,       \* history: the last _prune_mirror_dir call
    job,            \* the command line of the invocations
    src,            \* the source images: path -> [size, mtime, data]
    now,            \* the clock, one tick per invocation
    index,          \* vlm-cache/index.json: set of [fk, ck]
    index_ok,       \* index.json is absent or holds a JSON dict (FALSE: unreadable)
    results,        \* vlm-cache/<ck>.json|.txt: set of [ck, ext, content, valid]
    last_run,       \* history: the last invocation of main
    prev_run,       \* history: the invocation before it
    \* ---- writing a file of the cache directory (helper/utils.py) ----
    io,             \* [dirents: path -> inode (0: none), inodes: <<content>>,
                    \*  procs: <<writer>>]
    img,            \* an image in _resize_percent_and_snap (helper/vlm.py)
    sp,             \* with_spinner: the main thread and the spinner thread (helper/spinner.py)
    pr,             \* _prune_mirror_dir statement by statement, beside another process
    cc              \* CorrectionCache and the threads calling it (helper/cache_helper.py)

clientVars == <<cfg, pc, scale_idx, current_batch, last_err, outcome, used, att,
                unusable_log>>
fsVars == <<mirror, prune_op>>
mainVars == <<job, src, now, index, index_ok, results, last_run, prev_run>>
vars == <<clientVars, fsVars, mainVars, io, img, sp, pr, cc>>

(***************************************************************************)
(* Bounds of the model.                                                    *)
(***************************************************************************)
MaxImages == 1

(***************************************************************************)
(* Program constants, vlm.py.                                              *)
(***************************************************************************)
DEFAULT_NUM_BATCH == 64
DEFAULT_MAX_CTX == 8196
DEFAULT_SNAP_MULT == 32
DEFAULT_SNAP_MIN == 64
BATCH_FLOOR == 16

None == "None"

\* No exception. An exception is [cls: its class, code: the HTTP status of an
\* HTTPError (0: none), body: what the response body or the message contains,
\* text: the output an unusable-output error quotes, id: the loop iteration
\* that created the exception object (0: created outside the loop)].
NoErr == [cls |-> "None", code |-> 0, body |-> "", text |-> <<>>, id |-> 0]

\* out: Optional[str]
NoOut == [some |-> FALSE, text |-> <<>>]
Out(text) == [some |-> TRUE, text |-> text]

\* A response text is a sequence of characters; " " stands for any whitespace,
\* "a" for any other ordinary character, a marker for that marker's characters.
Markers == {"<|im_start|>", "<|im_end|>", "<|assistant|>", "<|user|>", "<|system|>"}

Texts == { <<>>, <<" ">>, <<" ", "a", " ">>, <<" ", "a", "<|im_end|>">> }

RECURSIVE LStrip(_)
LStrip(s) == IF s # <<>> /\ Head(s) = " " THEN LStrip(Tail(s)) ELSE s

RECURSIVE RStrip(_)
RStrip(s) ==
    IF s # <<>> /\ s[Len(s)] = " " THEN RStrip(SubSeq(s, 1, Len(s) - 1)) ELSE s

\* str.strip()
Strip(s) == RStrip(LStrip(s))

\* _looks_like_template_leak
LooksLikeTemplateLeak(content) ==
    LET c == Strip(content)
    IN  IF c = <<>> THEN FALSE ELSE \E i \in 1..Len(c) : c[i] \in Markers

\* the test of line 475: out.strip() == "" or _looks_like_template_leak(out)
UnusableDropsLeak(out) == Strip(out) = <<>>
Unusable(out) == Strip(out) = <<>> \/ LooksLikeTemplateLeak(out)

(***************************************************************************)
(* Exceptions.                                                             *)
(***************************************************************************)
Err(cls, code, body) ==
    [cls |-> cls, code |-> code, body |-> body, text |-> <<>>, id |-> 0]

TransportErrors ==
    { Err("Timeout", 0, ""), Err("HTTPError", 503, ""), Err("HTTPError", 404, ""),
      Err("HTTPError", 400, "unknown field"), Err("HTTPError", 400, "") }

PrepError == Err("PrepError", 0, "")
UnusableError(out) ==
    [cls |-> "RuntimeError", code |-> 0, body |-> "unusable output", text |-> out,
     id |-> 0]
UnknownError == Err("RuntimeError", 0, "no exception captured")
TypeError == Err("TypeError", 0, "missing system_prompt")

\* _is_retriable_error
IsRetriableError(e) ==
    \/ e.cls \in {"Timeout", "ConnectionError"}
    \/ e.cls = "HTTPError" /\ e.code >= 500

\* _looks_like_endpoint_mismatch
LooksLikeEndpointMismatch(e) ==
    /\ e.cls = "HTTPError"
    /\ \/ e.code = 404
       \/ e.code = 400 /\ e.body \in {"unknown field", "invalid", "messages"}

\* What one HTTP request can come to: a text, or an exception.
Responses == [ok : {TRUE}, text : Texts, err : {NoErr}]
             \cup [ok : {FALSE}, text : {<<>>}, err : TransportErrors]

NoResponse == [ok |-> FALSE, text |-> <<>>, err |-> NoErr]

\* whether the for loop of lines 443-454 goes on to the second endpoint
NeedsSecond(r1) == ~r1.ok /\ LooksLikeEndpointMismatch(r1.err)

\* _append_unusable, lines 393-399
AppendUnusable(log, out) == [n |-> log.n + 1, last |-> out]

(***************************************************************************)
(* ollama_chat_with_images: set-up, lines 282-305 and 387-401.             *)
(***************************************************************************)
\* the ladder, line 388, in percent
Scales(quality_mode) == IF quality_mode THEN <<90, 75>> ELSE <<60, 50, 40, 30>>

\* lines 298-300 and 391
InitialBatch(num_batch) == IF num_batch <= 0 THEN 0 ELSE num_batch

\* lines 302-304: VLM_MAX_CTX, or the default when it is not positive
MaxCtx(env_max_ctx) == IF env_max_ctx <= 0 THEN DEFAULT_MAX_CTX ELSE env_max_ctx

\* lines 424-432 with the explicit context size ignored
EffectiveNumCtxAuto(num_ctx, max_ctx) == max_ctx
\* lines 424-432; num_ctx = 0 stands for None
EffectiveNumCtx(num_ctx, max_ctx) == IF num_ctx > 0 THEN num_ctx ELSE max_ctx

\* _build_options, lines 314-331, integers only: floats in hundredths, False
\* as 0; num_batch is present when current_batch > 0, num_predict when
\* VLM_NUM_PREDICT > 0
BuildOptions(effective_num_ctx, batch, num_predict) ==
    LET keys == {"num_ctx", "temperature", "top_p", "top_k", "min_p",
                 "enable_thinking"}
                   \cup (IF batch > 0 THEN {"num_batch"} ELSE {})
                   \cup (IF num_predict > 0 THEN {"num_predict"} ELSE {})
    IN  [k \in keys |->
            CASE k = "num_ctx" -> effective_num_ctx
              [] k = "temperature" -> 70
              [] k = "top_p" -> 80
              [] k = "top_k" -> 20
              [] k = "min_p" -> 0
              [] k = "enable_thinking" -> 0
              [] k = "num_batch" -> batch
              [] k = "num_predict" -> num_predict]

\* the payload of call_chat (lines 334-342) and of call_generate (lines
\* 361-370): its top-level keys and its options
Payload(ep, n_images, options) ==
    [keys |-> IF ep = "chat"
              THEN {"model", "messages", "options", "stream"}
              ELSE {"model", "system", "prompt", "options", "stream"}
                       \cup (IF n_images > 0 THEN {"images"} ELSE {}),
     options |-> options]

\* line 435
CallOrder(endpoint_pref) ==
    IF endpoint_pref = "chat" THEN <<"chat", "generate">> ELSE <<"generate", "chat">>

\* The invocations explored: every mode, endpoint preference and batch setting
\* with images and no explicit context size, and the default setting with every
\* number of images, with the batch size unset (VLM_NUM_BATCH=0) and with an
\* explicit context size, with debug capture (VLM_DEBUG=1), with another
\* ceiling (VLM_MAX_CTX) and with small images. VLM_NUM_BATCH defaults to 64.
\* An image is a square of side dim.
BatchEnvValues == {8, 40, DEFAULT_NUM_BATCH}
SmallDim == 64
LargeDim == 4096
ExplicitCtx == 4096

DefaultConfig ==
    [quality_mode |-> FALSE, endpoint_pref |-> "chat", num_batch |-> DEFAULT_NUM_BATCH,
     num_ctx |-> 0, n_images |-> 1, debug |-> FALSE, max_ctx |-> DEFAULT_MAX_CTX,
     num_predict |-> 0, dim |-> LargeDim]

\* the quality ladder, with a batch size that cannot be halved
ShortConfig == [DefaultConfig EXCEPT !.quality_mode = TRUE, !.num_batch = 8]

Configs ==
    [ quality_mode : BOOLEAN, endpoint_pref : {"chat", "generate"},
      num_batch : BatchEnvValues, num_ctx : {0}, n_images : {1},
      debug : {FALSE}, max_ctx : {DEFAULT_MAX_CTX}, num_predict : {0},
      dim : {LargeDim} ]
    \cup { [DefaultConfig EXCEPT !.n_images = n] : n \in 0..MaxImages }
    \cup { [DefaultConfig EXCEPT !.num_batch = 0] }
    \cup { [DefaultConfig EXCEPT !.num_ctx = ExplicitCtx],
           [ShortConfig EXCEPT !.num_ctx = ExplicitCtx, !.endpoint_pref = "generate"] }
    \cup { [ShortConfig EXCEPT !.debug = TRUE, !.n_images = n] :
             n \in 0..MaxImages }
    \cup { [ShortConfig EXCEPT !.dim = SmallDim, !.max_ctx = 0],
           [ShortConfig EXCEPT !.dim = SmallDim, !.max_ctx = 2048,
                               !.num_predict = 256] }

\* fault: what made the preparation fail ("none" | "decode" | "debug"); dim: the
\* largest side of the prepared images (0: none); payloads: of each request
NoAttempt == [scale |-> 0, batch |-> 0, ctx |-> 0, prep |-> None, calls |-> <<>>,
              out |-> NoOut, err |-> NoErr, next |-> None, fault |-> "none",
              dim |-> 0, payloads |-> <<>>]

NoOutcome == [kind |-> "none", text |-> <<>>, err |-> NoErr]

InitClient ==
    /\ cfg \in Configs
    /\ pc = "loop"
    /\ scale_idx = 1
    /\ current_batch = InitialBatch(cfg.num_batch)
    /\ last_err = NoErr
    /\ outcome = NoOutcome
    /\ used = <<>>
    /\ att = NoAttempt
    /\ unusable_log = [n |-> 0, last |-> <<>>]

NoPrune == [script |-> "none", max_files |-> 0, max_bytes |-> 0, before |-> {},
            deleted |-> <<>>]

InitFsIdle ==
    /\ mirror = {}
    /\ prune_op = NoPrune

(***************************************************************************)
(* _snap_size and _resize_percent_and_snap, helper/vlm.py lines 118-159.   *)
(* The scale is a percentage; int(w * s) is taken on floats, so a product  *)
(* that is an integer can come out one below it.                           *)
(***************************************************************************)
MaxDim == 5
MaxSnap == 4

Max(a, b) == IF a >= b THEN a ELSE b
Min(a, b) == IF a <= b THEN a ELSE b

\* _snap_one, lines 126-130, snap_mult and snap_min already clamped
SnapOne(x, snap_mult, snap_min) ==
    IF x <= snap_min
    THEN snap_min
    ELSE Max(snap_min, (x \div snap_mult) * snap_mult)

\* _snap_size
SnapSize(w, h, snap_mult, snap_min) ==
    LET m == Max(1, snap_mult)
        f == Max(1, snap_min)
    IN  <<Max(1, SnapOne(w, m, f)), Max(1, SnapOne(h, m, f))>>

\* s = max(0.01, min(1.0, float(scale))), in percent
ClampScale(pct) == Max(1, Min(100, pct))

\* max(1, int(x * s))
Scaled(x, pct) ==
    LET p == x * ClampScale(pct)
    IN  { Max(1, p \div 100) } \cup
        (IF p % 100 = 0 /\ ClampScale(pct) < 100
         THEN { Max(1, (p \div 100) - 1) } ELSE {})

\* lines 154-157: sw = max(1, min(sw, resized.size[0]))
Unclamped(snapped, resized) == Max(1, snapped)
Clamped(snapped, resized) == Max(1, Min(snapped, resized))

NoImage ==
    [stage |-> "none", w |-> 0, h |-> 0, scale |-> 0, snap_mult |-> 0,
     snap_min |-> 0, rw |-> 0, rh |-> 0, sw |-> 0, sh |-> 0]

InitImgIdle == img = NoImage

InitImg ==
    \E w \in 0..MaxDim, h \in {1, MaxDim}, scale \in {0, 50, 100, 150},
       snap_mult \in -1..MaxSnap, snap_min \in -1..MaxSnap :
        img = [NoImage EXCEPT !.stage = "loaded", !.w = w, !.h = h,
                              !.scale = scale, !.snap_mult = snap_mult,
                              !.snap_min = snap_min]

\* _resize_percent_and_snap
ResizePercentAndSnap ==
    /\ img.stage = "loaded"
    /\ IF img.w <= 0 \/ img.h <= 0
       THEN img' = [img EXCEPT !.stage = "returned", !.rw = img.w, !.rh = img.h,
                               !.sw = img.w, !.sh = img.h]
       ELSE \E rw \in Scaled(img.w, img.scale), rh \in Scaled(img.h, img.scale) :
              LET snapped == SnapSize(rw, rh, img.snap_mult, img.snap_min)
              IN  img' = [img EXCEPT !.stage = "returned", !.rw = rw, !.rh = rh,
                                     !.sw = Clamped(snapped[1], rw),
                                     !.sh = Clamped(snapped[2], rh)]
    /\ UNCHANGED <<clientVars, fsVars, mainVars, io, sp, pr, cc>>

NextImg == ResizePercentAndSnap
(***************************************************************************)
(* One iteration of the loop of lines 402-483.                             *)
(***************************************************************************)
\* The for loop of lines 443-454 over call_order, from entry i on; resps[i] is
\* what the i-th request comes to. Returns the requests issued (endpoint and
\* the exception it raised), out and endpoint_err.
RECURSIVE TryEndpointsPingPong(_, _, _, _)
TryEndpointsPingPong(order, resps, i, issued) ==
    LET k == ((i - 1) % Len(order)) + 1
        r == resps[k]
        sent == Append(issued, [ep |-> order[k], err |-> r.err])
    IN  IF r.ok
        THEN [calls |-> sent, out |-> Out(r.text), err |-> NoErr]
        ELSE IF ~LooksLikeEndpointMismatch(r.err) \/ Len(sent) > Len(order)
             THEN [calls |-> sent, out |-> NoOut, err |-> r.err]
             ELSE TryEndpointsPingPong(order, resps, i + 1, sent)

\* the for loop of lines 443-454 going on to the second endpoint after any
\* failure of the first
RECURSIVE TryEndpointsAfterAnyFailure(_, _, _, _)
TryEndpointsAfterAnyFailure(order, resps, i, issued) ==
    IF i > Len(order)
    THEN [calls |-> issued, out |-> NoOut, err |-> resps[1].err]
    ELSE LET r == IF i = 2 /\ resps[i] = NoResponse THEN resps[1] ELSE resps[i]
             sent == Append(issued, [ep |-> order[i], err |-> r.err])
         IN  IF r.ok
             THEN [calls |-> sent, out |-> Out(r.text), err |-> NoErr]
             ELSE TryEndpointsAfterAnyFailure(order, resps, i + 1, sent)
RECURSIVE TryEndpoints(_, _, _, _)
TryEndpoints(order, resps, i, issued) ==
    IF i > Len(order)
    THEN [calls |-> issued, out |-> NoOut, err |-> resps[Len(order)].err]
    ELSE LET r == resps[i]
             sent == Append(issued, [ep |-> order[i], err |-> r.err])
         IN  IF r.ok
             THEN [calls |-> sent, out |-> Out(r.text), err |-> NoErr]
             ELSE IF ~LooksLikeEndpointMismatch(r.err)
                  THEN [calls |-> sent, out |-> NoOut, err |-> r.err]
                  ELSE TryEndpoints(order, resps, i + 1, sent)

\* lines 460-462: the batch after a retriable failure, or the same batch when it
\* cannot be reduced
ReducedBatchNoFloor(batch) ==
    LET eff_batch == IF batch > 0 THEN batch ELSE DEFAULT_NUM_BATCH
    IN  IF eff_batch > 1 THEN eff_batch \div 2 ELSE batch
ReducedBatchBounces(batch) ==
    LET eff_batch == IF batch > 0 THEN batch ELSE DEFAULT_NUM_BATCH
    IN  IF eff_batch > BATCH_FLOOR
        THEN IF BATCH_FLOOR > eff_batch \div 2 THEN BATCH_FLOOR ELSE eff_batch \div 2
        ELSE DEFAULT_NUM_BATCH
ReducedBatch(batch) ==
    LET eff_batch == IF batch > 0 THEN batch ELSE DEFAULT_NUM_BATCH
    IN  IF eff_batch > BATCH_FLOOR
        THEN IF BATCH_FLOOR > eff_batch \div 2 THEN BATCH_FLOOR ELSE eff_batch \div 2
        ELSE batch

\* the exception object created in this iteration
Raised(e) == [e EXCEPT !.id = Len(used) + 1]

\* lines 456-471: what the loop does with endpoint_err
AfterTransportErrorContinues(e, batch) ==
    IF ReducedBatch(batch) # batch THEN "retry_batch" ELSE "next_scale"
AfterTransportErrorRaisesAtFloor(e, batch) ==
    IF IsRetriableError(e)
    THEN IF ReducedBatch(batch) # batch THEN "retry_batch" ELSE "raise"
    ELSE "raise"
AfterTransportError(e, batch) ==
    IF IsRetriableError(e)
    THEN IF ReducedBatch(batch) # batch THEN "retry_batch" ELSE "next_scale"
    ELSE "raise"

\* lines 473-483: what the loop does with out
AfterOutput(out) == IF Unusable(out) THEN "next_scale" ELSE "return"

\* where the iteration goes: "next_scale" | "retry_batch" | "raise" | "return"
StepPrepAborts(prep_ok, t) ==
    IF ~prep_ok THEN "raise"
    ELSE IF ~t.out.some THEN AfterTransportError(t.err, current_batch)
    ELSE AfterOutput(t.out.text)
Step(prep_ok, t) ==
    IF ~prep_ok THEN "next_scale"
    ELSE IF ~t.out.some THEN AfterTransportError(t.err, current_batch)
    ELSE AfterOutput(t.out.text)

\* lines 419, 457, 476: last_err after the iteration
RecordedKeepFirst(prev, prep_ok, t) ==
    IF prev # NoErr THEN prev
    ELSE IF ~prep_ok THEN Raised(PrepError)
    ELSE IF ~t.out.some THEN Raised(t.err)
    ELSE IF Step(prep_ok, t) = "next_scale" THEN Raised(UnusableError(t.out.text))
    ELSE prev
Recorded(prev, prep_ok, t) ==
    IF ~prep_ok THEN Raised(PrepError)
    ELSE IF ~t.out.some THEN Raised(t.err)
    ELSE IF Step(prep_ok, t) = "next_scale" THEN Raised(UnusableError(t.out.text))
    ELSE prev

\* scale_idx after the iteration
NextScaleIdxSkips(step) == IF step = "next_scale" THEN scale_idx + 2 ELSE scale_idx
NextScaleIdxRestarts(step) ==
    IF step = "next_scale" THEN scale_idx + 1
    ELSE IF step = "retry_batch" THEN 1 ELSE scale_idx
NextScaleIdx(step) == IF step = "next_scale" THEN scale_idx + 1 ELSE scale_idx

\* the largest side of a prepared image of side dim at a scale, with the
\* default snap settings (lines 172-177)
PreparedDims(dim, scale) ==
    { Clamped(SnapSize(r, r, DEFAULT_SNAP_MULT, DEFAULT_SNAP_MIN)[1], r) :
        r \in Scaled(dim, scale) }

Attempt ==
    /\ pc = "loop"
    /\ scale_idx <= Len(Scales(cfg.quality_mode))
    /\ \E fault \in {"none"} \cup (IF cfg.n_images > 0 THEN {"decode"} ELSE {})
                            \cup (IF cfg.debug THEN {"debug"} ELSE {}) :
       \E dim \in IF fault = "none" /\ cfg.n_images > 0
                  THEN PreparedDims(cfg.dim, Scales(cfg.quality_mode)[scale_idx])
                  ELSE {0} :
       \E r1 \in IF fault = "none" THEN Responses ELSE {NoResponse} :
       \E r2 \in IF fault = "none" /\ NeedsSecond(r1) THEN Responses ELSE {NoResponse} :
       \* t: what the for loop over call_order comes to; step: where the
       \* iteration goes
       \E t \in {IF fault = "none"
                 THEN TryEndpoints(CallOrder(cfg.endpoint_pref), <<r1, r2>>, 1, <<>>)
                 ELSE [calls |-> <<>>, out |-> NoOut, err |-> NoErr]} :
       \E step \in {Step(fault = "none", t)} :
          LET prep_ok == fault = "none"
              scale == Scales(cfg.quality_mode)[scale_idx]
              ctx == EffectiveNumCtx(cfg.num_ctx, MaxCtx(cfg.max_ctx))
              rec == Recorded(last_err, prep_ok, t)
          IN  /\ used' = Append(used, [scale |-> scale, batch |-> current_batch])
              /\ att' = [scale |-> scale, batch |-> current_batch,
                         ctx |-> IF prep_ok THEN ctx ELSE 0,
                         prep |-> IF prep_ok THEN "ok" ELSE "fail",
                         calls |-> t.calls, out |-> t.out,
                         err |-> IF prep_ok THEN t.err ELSE PrepError,
                         next |-> step, fault |-> fault, dim |-> dim,
                         payloads |->
                            [i \in 1..Len(t.calls) |->
                                Payload(t.calls[i].ep, cfg.n_images,
                                        BuildOptions(ctx, current_batch,
                                                     cfg.num_predict))]]
              /\ last_err' = rec
              /\ unusable_log' = IF prep_ok /\ t.out.some /\ step = "next_scale"
                                 THEN AppendUnusable(unusable_log, t.out.text)
                                 ELSE unusable_log
              /\ current_batch' = IF step = "retry_batch"
                                  THEN ReducedBatch(current_batch)
                                  ELSE current_batch
              /\ scale_idx' = NextScaleIdx(step)
              /\ pc' = CASE step = "return" -> "returned"
                         [] step = "raise" -> "raised"
                         [] OTHER -> "loop"
              /\ outcome' = CASE step = "return" ->
                                     [kind |-> "text", text |-> t.out.text, err |-> NoErr]
                              [] step = "raise" ->
                                     [kind |-> "error", text |-> <<>>, err |-> rec]
                              [] OTHER -> outcome
    /\ UNCHANGED <<cfg, fsVars, mainVars, io, img, sp, pr, cc>>

\* lines 485-488: the ladder is exhausted
Exhausted ==
    /\ pc = "loop"
    /\ scale_idx > Len(Scales(cfg.quality_mode))
    /\ pc' = "raised"
    /\ outcome' = [kind |-> "error", text |-> <<>>,
                   err |-> IF last_err = NoErr THEN UnknownError ELSE last_err]
    /\ UNCHANGED <<cfg, scale_idx, current_batch, last_err, used, att,
                   unusable_log, fsVars, mainVars, io, img, sp, pr, cc>>

(***************************************************************************)
(* with_spinner, helper/spinner.py lines 10-31: the main thread runs fn()  *)
(* while a daemon thread draws on stderr until the stop flag is set.  One  *)
(* action per statement of either thread; idx is kept modulo 4, the only   *)
(* way the code uses it.  A write to stderr can raise in the spinner       *)
(* thread, which ends the thread.                                          *)
(***************************************************************************)
FnOutcomes ==
    [kind : {"return"}, v : {"r1", "r2"}] \cup [kind : {"raise"}, v : {"e1", "e2"}]
FnPending == [kind |-> "none", v |-> "none"]

NoSpinner ==
    [main |-> "idle", stop |-> FALSE, thread |-> "unstarted", idx |-> 0,
     stderr |-> "", fn |-> FnPending, out |-> FnPending, died |-> FALSE]

InitSpIdle == sp = NoSpinner

\* line 12: stop_flag = {"stop": False}; line 25: the thread object
InitSp == sp = [NoSpinner EXCEPT !.main = "start"]

SpFrame == UNCHANGED <<clientVars, fsVars, mainVars, io, img, pr, cc>>

\* line 26: thread.start()
ThreadStart ==
    /\ sp.main = "start"
    /\ sp' = [sp EXCEPT !.main = "fn", !.thread = "test"]
    /\ SpFrame

\* line 28: return fn(), fn returns or raises
Fn ==
    /\ sp.main = "fn"
    /\ \E o \in FnOutcomes : sp' = [sp EXCEPT !.main = "finally", !.fn = o]
    /\ SpFrame

\* line 30: stop_flag["stop"] = True
SetStop ==
    /\ sp.main = "finally"
    /\ sp' = [sp EXCEPT !.main = "join", !.stop = TRUE]
    /\ SpFrame

\* line 31 without waiting for the thread
JoinNoWait ==
    /\ sp.main = "join"
    /\ sp' = [sp EXCEPT !.main = IF sp.fn.kind = "return" THEN "returned"
                                 ELSE "raised",
                        !.out = sp.fn]
    /\ SpFrame

\* line 31: thread.join(), then the return value or the exception of line 28
Join ==
    /\ sp.main = "join"
    /\ sp.thread = "terminated"
    /\ sp' = [sp EXCEPT !.main = IF sp.fn.kind = "return" THEN "returned"
                                 ELSE "raised",
                        !.out = sp.fn]
    /\ SpFrame

\* line 17: while not stop_flag["stop"]
SpinTest ==
    /\ sp.thread = "test"
    /\ sp' = [sp EXCEPT !.thread = IF sp.stop THEN "done" ELSE "write"]
    /\ SpFrame

\* lines 18-20: write a symbol, flush, idx += 1
SpinWrite ==
    /\ sp.thread = "write"
    /\ sp' = [sp EXCEPT !.thread = "sleep", !.idx = (sp.idx + 1) % 4,
                        !.stderr = <<"|", "/", "-", "\\">>[(sp.idx % 4) + 1]]
    /\ SpFrame

\* line 21: time.sleep(0.1)
SpinSleep ==
    /\ sp.thread = "sleep"
    /\ sp' = [sp EXCEPT !.thread = "test"]
    /\ SpFrame

\* lines 22-23: write "done", the thread function returns
SpinDone ==
    /\ sp.thread = "done"
    /\ sp' = [sp EXCEPT !.thread = "terminated", !.stderr = "done"]
    /\ SpFrame

\* lines 18-19, 22-23: the write or the flush raises, the thread ends
SpinWriteRaises ==
    /\ sp.thread \in {"write", "done"}
    /\ sp' = [sp EXCEPT !.thread = "terminated", !.died = TRUE]
    /\ SpFrame

\* the spinner thread, lines 14-23
Spinner == SpinTest \/ SpinWrite \/ SpinSleep \/ SpinDone \/ SpinWriteRaises

NextSp == ThreadStart \/ Fn \/ SetStop \/ Join \/ Spinner
(***************************************************************************)
(* Writing one file of the cache directory: atomic_write_text of           *)
(* helper/utils.py lines 4-12 (screen_explain.py: _write_index, the result *)
(* file) and Path.write_text on the target itself (screen-explain.py:      *)
(* _write_index line 227, _write_cache lines 275, 277). A file is an inode *)
(* named by a directory entry; its content is the sequence of the chunks   *)
(* written to it, one chunk per write call. A writer can be interrupted    *)
(* between any two of its steps.                                           *)
(***************************************************************************)
MaxChunks == 2
MaxWriters == 2

\* the file written, and path.with_suffix(path.suffix + ".tmp")
TargetPath == <<"index.json">>
TmpPath(path) == path \o <<".tmp">>

\* chunk k of the text writer w writes; writer 0 wrote the previous content
Chunk(w, k) == [w |-> w, k |-> k]
Hole == Chunk(0, 0)
Text(w, n) == [k \in 1..n |-> Chunk(w, k)]
Previous == Text(0, 1)

\* write(2) of chunk c at offset off
WriteAt(content, off, c) ==
    LET padded == IF Len(content) < off
                  THEN content \o [i \in 1..(off - Len(content)) |-> Hole]
                  ELSE content
    IN  SubSeq(padded, 1, off) \o <<c>> \o SubSeq(padded, off + 2, Len(padded))

\* a writer: how it writes ("atomic": atomic_write_text, "direct": write_text
\* on the target), the chunks of its text, where it is, its descriptor
Writer(kind, n) == [kind |-> kind, n |-> n, pc |-> "start", fd |-> 0, off |-> 0]

InitIoIdle ==
    io = [dirents |-> [p \in {TargetPath} |-> 0], inodes |-> <<>>, procs |-> <<>>]

InitWrite ==
    \E nw \in 1..MaxWriters, before \in {0, 1} :
    \E kinds \in [1..nw -> {"atomic", "direct"}], ns \in [1..nw -> 1..MaxChunks] :
        io = [dirents |-> [p \in {TargetPath, TmpPath(TargetPath)}
                             |-> IF p = TargetPath THEN before ELSE 0],
              inodes |-> IF before = 0 THEN <<>> ELSE <<Previous>>,
              procs |-> [w \in 1..nw |-> Writer(kinds[w], ns[w])]]

\* open(path, "w"): create the file or truncate it
OpenForWrite(w) ==
    /\ io.procs[w].pc = "start"
    /\ LET path == IF io.procs[w].kind = "atomic"
                   THEN TmpPath(TargetPath) ELSE TargetPath
           ino == IF io.dirents[path] = 0
                  THEN Len(io.inodes) + 1 ELSE io.dirents[path]
       IN  io' = [dirents |-> [io.dirents EXCEPT ![path] = ino],
                  inodes |-> IF io.dirents[path] = 0
                             THEN Append(io.inodes, <<>>)
                             ELSE [io.inodes EXCEPT ![ino] = <<>>],
                  procs |-> [io.procs EXCEPT ![w].pc = "writing", ![w].fd = ino,
                                             ![w].off = 0]]

\* one write call; after the last one the file is closed
WriteChunk(w) ==
    /\ io.procs[w].pc = "writing"
    /\ LET p == io.procs[w]
           last == p.off + 1 = p.n
       IN  io' = [io EXCEPT
                    !.inodes[p.fd] = WriteAt(@, p.off, Chunk(w, p.off + 1)),
                    !.procs[w].off = p.off + 1,
                    !.procs[w].pc = IF ~last THEN "writing"
                                    ELSE IF p.kind = "atomic" THEN "written"
                                    ELSE "done"]

\* tmp.replace(path): rename(2), FileNotFoundError when tmp is gone
Replace(w) ==
    /\ io.procs[w].pc = "written"
    /\ LET tmp == TmpPath(TargetPath)
       IN  IF io.dirents[tmp] = 0
           THEN io' = [io EXCEPT !.procs[w].pc = "failed"]
           ELSE io' = [io EXCEPT !.dirents[TargetPath] = io.dirents[tmp],
                                 !.dirents[tmp] = 0,
                                 !.procs[w].pc = "done"]

\* the process is interrupted
Interrupt(w) ==
    /\ io.procs[w].pc \in {"writing", "written"}
    /\ io' = [io EXCEPT !.procs[w].pc = "dead"]

IoFrame == UNCHANGED <<clientVars, fsVars, mainVars, img, sp, pr, cc>>

Opens == (\E w \in DOMAIN io.procs : OpenForWrite(w)) /\ IoFrame
Writes == (\E w \in DOMAIN io.procs : WriteChunk(w)) /\ IoFrame
Replaces == (\E w \in DOMAIN io.procs : Replace(w)) /\ IoFrame
Interrupts == (\E w \in DOMAIN io.procs : Interrupt(w)) /\ IoFrame

NextWrite == Opens \/ Writes \/ Replaces \/ Interrupts
(***************************************************************************)
(* _prune_mirror_dir, screen_explain.py lines 225-245 and screen-explain.py *)
(* lines 300-343. A file of the mirror directory is [name, size, mtime].   *)
(***************************************************************************)
RECURSIVE TotalSize(_)
TotalSize(files) ==
    IF files = {} THEN 0
    ELSE LET f == CHOOSE x \in files : TRUE IN f.size + TotalSize(files \ {f})

\* the listings files.sort(key=mtime) can produce: iterdir() yields the files in
\* any order and the sort keeps the order of files of equal mtime
RECURSIVE SortedListings(_)
SortedListings(files) ==
    IF files = {} THEN {<<>>}
    ELSE LET oldest == {f \in files : \A g \in files : f.mtime <= g.mtime}
         IN  UNION { {<<f>> \o s : s \in SortedListings(files \ {f})} :
                     f \in oldest }

\* while len(files) > max_files: pop(0), unlink, total -= sz
RECURSIVE CountPassOffByOne(_, _, _, _)
CountPassOffByOne(files, total, deleted, max_files) ==
    IF Len(files) > max_files + 1
    THEN CountPassOffByOne(Tail(files), total - Head(files).size,
                           Append(deleted, Head(files)), max_files)
    ELSE [files |-> files, total |-> total, deleted |-> deleted]

RECURSIVE CountPass(_, _, _, _)
CountPass(files, total, deleted, max_files) ==
    IF Len(files) > max_files
    THEN CountPass(Tail(files), total - Head(files).size,
                   Append(deleted, Head(files)), max_files)
    ELSE [files |-> files, total |-> total, deleted |-> deleted]

\* while total > max_bytes and files: pop(0), unlink, total -= sz
RECURSIVE BytesPassNewestFirst(_, _, _, _)
BytesPassNewestFirst(files, total, deleted, max_bytes) ==
    IF total > max_bytes /\ files # <<>>
    THEN BytesPassNewestFirst(SubSeq(files, 1, Len(files) - 1),
                              total - files[Len(files)].size,
                              Append(deleted, files[Len(files)]), max_bytes)
    ELSE [files |-> files, total |-> total, deleted |-> deleted]
RECURSIVE BytesPass(_, _, _, _)
BytesPass(files, total, deleted, max_bytes) ==
    IF total > max_bytes /\ files # <<>>
    THEN BytesPass(Tail(files), total - Head(files).size,
                   Append(deleted, Head(files)), max_bytes)
    ELSE [files |-> files, total |-> total, deleted |-> deleted]

Range(seq) == {seq[i] : i \in 1..Len(seq)}

\* screen_explain.py: one listing, both passes over it; the deleted files, in order
PruneDeletions(dir, max_files, max_bytes) ==
    { LET c == CountPass(s, TotalSize(dir), <<>>, max_files)
      IN  BytesPass(c.files, c.total, c.deleted, max_bytes).deleted :
      s \in SortedListings(dir) }

\* screen-explain.py: the directory is listed again before the byte pass
PruneDeletionsLegacy(dir, max_files, max_bytes) ==
    UNION { LET c == CountPass(s, TotalSize(dir), <<>>, max_files)
                left == dir \ Range(c.deleted)
            IN  { BytesPass(s2, TotalSize(left), c.deleted, max_bytes).deleted :
                  s2 \in SortedListings(left) } :
            s \in SortedListings(dir) }

PruneMirrorDir(max_files, max_bytes) ==
    \E deleted \in PruneDeletions(mirror, max_files, max_bytes) :
        /\ mirror' = mirror \ Range(deleted)
        /\ prune_op' = [script |-> "screen_explain", max_files |-> max_files,
                        max_bytes |-> max_bytes, before |-> mirror,
                        deleted |-> deleted]

PruneMirrorDirLegacy(max_files, max_bytes) ==
    \E deleted \in PruneDeletionsLegacy(mirror, max_files, max_bytes) :
        /\ mirror' = mirror \ Range(deleted)
        /\ prune_op' = [script |-> "screen-explain", max_files |-> max_files,
                        max_bytes |-> max_bytes, before |-> mirror,
                        deleted |-> deleted]

\* The directories and budgets explored.
MaxFiles == 3
Sizes == {0, 2}
Mtimes == {1, 2}
ByteBudgets == {0, 1, 3, 4}

Directories ==
    UNION { { {[name |-> n, size |-> f[n][1], mtime |-> f[n][2], data |-> "x"] :
                 n \in names} :
              f \in [names -> Sizes \X Mtimes] } :
            names \in SUBSET (1..MaxFiles) }

InitPrune ==
    /\ mirror \in Directories
    /\ prune_op = NoPrune

InitClientIdle ==
    /\ cfg = DefaultConfig
    /\ pc = "idle"
    /\ scale_idx = 1
    /\ current_batch = InitialBatch(cfg.num_batch)
    /\ last_err = NoErr
    /\ outcome = NoOutcome
    /\ used = <<>>
    /\ att = NoAttempt
    /\ unusable_log = [n |-> 0, last |-> <<>>]

Prune ==
    /\ \E max_files \in 0..MaxFiles, max_bytes \in ByteBudgets :
          PruneMirrorDir(max_files, max_bytes)
    /\ UNCHANGED <<clientVars, mainVars, io, img, sp, pr, cc>>

PruneLegacy ==
    /\ \E max_files \in 0..MaxFiles, max_bytes \in ByteBudgets :
          PruneMirrorDirLegacy(max_files, max_bytes)
    /\ UNCHANGED <<clientVars, mainVars, io, img, sp, pr, cc>>

NextPrune == Prune \/ PruneLegacy

(***************************************************************************)
(* main() of screen_explain.py (lines 374-468) and of screen-explain.py    *)
(* (lines 346-436): the cache around the inference client. One behaviour   *)
(* repeats one command line (job) while the first source image is          *)
(* rewritten between the invocations.                                      *)
(***************************************************************************)
MaxRuns == 3

MIRROR_MAX_FILES == 20
MIRROR_MAX_BYTES == 100 * 1024 * 1024

\* the source images: paths, and what a file can be
P1 == [dir |-> "shots", name |-> "a.png"]
P2 == [dir |-> "other", name |-> "a.png"]
Datas == {"x", "y"}
ImageFiles == [size : Sizes, mtime : Mtimes, data : Datas]

\* the command lines: script, images selected, --force-new, --model, --ctx,
\* --quality
Jobs ==
    [script : {"screen_explain", "screen-explain"}, imgs : {<<P1>>, <<P1, P2>>},
     force_new : BOOLEAN, model : {None}, ctx : {0}, quality : {FALSE}]

\* A cache key is the material the SHA-256 is taken of (the hash is taken to be
\* collision-free): the layout of the material, the model signature, the file
\* signatures, the image bytes, the prompt.
Key(fmt, model_sig, files, images, prompt) ==
    [fmt |-> fmt, model |-> model_sig, files |-> files, images |-> images,
     prompt |-> prompt]
NoKey == Key("none", <<>>, <<>>, <<>>, <<>>)

\* build_prompt(n): the text depends on the script and on n
BuildPrompt(script, n) == <<script, n>>

\* screen_explain.py lines 401-403; screen-explain.py (model or "default", no ctx)
ModelSig(j) ==
    <<IF j.model = None THEN "default" ELSE j.model,
      IF j.script = "screen_explain" THEN j.ctx ELSE 0>>

\* stat of the source images: p.name, st_size, st_mtime_ns
Stat(imgs) ==
    [i \in 1..Len(imgs) |->
        [id |-> <<imgs[i].name>>, size |-> src[imgs[i]].size,
         mtime |-> src[imgs[i]].mtime]]

\* stat of the source images by resolved path, screen-explain.py
StatResolved(imgs) ==
    [i \in 1..Len(imgs) |->
        [id |-> <<imgs[i].dir, imgs[i].name>>, size |-> src[imgs[i]].size,
         mtime |-> src[imgs[i]].mtime]]

\* the file of the directory with the given name
FileNamed(dir, name) == CHOOSE f \in dir : f.name = name

\* stat of the mirrored files
MirrorStat(dsts, dir) ==
    [i \in 1..Len(dsts) |->
        [id |-> dsts[i], size |-> FileNamed(dir, dsts[i]).size,
         mtime |-> FileNamed(dir, dsts[i]).mtime]]

\* the bytes of the mirrored files
MirrorBytes(dsts, dir) == [i \in 1..Len(dsts) |-> FileNamed(dir, dsts[i]).data]

\* screen_explain.py _fast_key, and _content_key which is _fast_key of the
\* mirrored files
FastKey(stats, prompt, model_sig) ==
    Key("screen_explain.files", model_sig, stats, <<>>, prompt)
ContentKey(stats, prompt, model_sig) == FastKey(stats, prompt, model_sig)

\* screen-explain.py _fast_key and _content_key
FastKeyLegacy(stats, prompt, model_sig) ==
    Key("screen-explain.files", model_sig, stats, <<>>, prompt)
ContentKeyLegacy(bytes, prompt, model_sig) ==
    Key("screen-explain.images", model_sig, <<>>, bytes, prompt)

\* _mirror_name_for(src, idx): idx, stem and suffix, st_size, st_mtime_ns
MirrorNameFor(p, idx) == <<idx, p.name, src[p].size, src[p].mtime>>

\* _ensure_mirrored copying every source, whether or not its mirror exists
EnsureMirroredAlways(imgs, dir, preserve) ==
    LET dsts == [i \in 1..Len(imgs) |-> MirrorNameFor(imgs[i], i - 1)]
        names == {dsts[i] : i \in 1..Len(imgs)}
    IN  [dsts |-> dsts,
         copied |-> names,
         dir |-> {f \in dir : f.name \notin names} \cup
                  { [name |-> dsts[i], size |-> src[imgs[i]].size,
                     mtime |-> IF preserve THEN src[imgs[i]].mtime ELSE now,
                     data |-> src[imgs[i]].data] : i \in 1..Len(imgs) }]

\* _ensure_mirrored: copy what is missing; copyfile stamps the copy with the
\* time of the copy, copy2 (preserve) with the mtime of the source
EnsureMirrored(imgs, dir, preserve) ==
    LET dsts == [i \in 1..Len(imgs) |-> MirrorNameFor(imgs[i], i - 1)]
        missing == {i \in 1..Len(imgs) : ~\E f \in dir : f.name = dsts[i]}
    IN  [dsts |-> dsts,
         copied |-> {dsts[i] : i \in missing},
         dir |-> dir \cup
                  { [name |-> dsts[i], size |-> src[imgs[i]].size,
                     mtime |-> IF preserve THEN src[imgs[i]].mtime ELSE now,
                     data |-> src[imgs[i]].data] : i \in missing }]

\* every mirrored file is still in the directory
Present(dsts, dir) == \A i \in 1..Len(dsts) : \E f \in dir : f.name = dsts[i]

\* index.json, a dict, as the set of its items
\* _read_index: {} when the file does not parse as a dict
ReadIndex(ok, items) == IF ok THEN items ELSE {}
IndexGet(idx, fk) == {e.ck : e \in {x \in idx : x.fk = fk}}
IndexPutAlone(idx, fk, ck) == {[fk |-> fk, ck |-> ck]}
IndexPut(idx, fk, ck) == {e \in idx : e.fk # fk} \cup {[fk |-> fk, ck |-> ck]}

\* the result files, <ck>.json and <ck>.txt; valid: the file parses (and, for
\* screen_explain.py, fits the schema), as every file written whole does
WriteResult(store, ck, ext, content) ==
    {r \in store : ~(r.ck = ck /\ r.ext = ext)}
        \cup {[ck |-> ck, ext |-> ext, content |-> content, valid |-> TRUE]}

\* screen-explain.py _read_cached: json.loads of an existing .json file raises
\* when the file does not parse
ReadCachedRaises(store, cks) ==
    \E r \in store : r.ck \in cks /\ r.ext = "json" /\ ~r.valid

JSONDecodeError == Err("JSONDecodeError", 0, "")

\* screen-explain.py _read_cached: the .json file if it exists, else the .txt
ReadCached(store, cks) ==
    LET js == {r \in store : r.ck \in cks /\ r.ext = "json"}
        ts == {r \in store : r.ck \in cks /\ r.ext = "txt"}
    IN  IF js # {} THEN {r.content : r \in js} ELSE {r.content : r \in ts}

\* what the model answers: plain text, or a JSON object
ClientTexts == { <<"a">>, <<"{", "a", "}">> }

\* extract_json_object and json.loads: the text holds a JSON object
HoldsJsonObject(raw) ==
    \E i, j \in 1..Len(raw) : i < j /\ raw[i] = "{" /\ raw[j] = "}"

\* safe_parse_model / _try_parse_json: the analysis, or the fallback that
\* keeps the raw text
NoAnalysis == [parsed |-> FALSE, text |-> <<>>]
SafeParseModel(raw) == [parsed |-> HoldsJsonObject(raw), text |-> raw]

\* ollama_chat_with_images, vlm.py lines 267-281: the keyword-only parameters
\* that have no default
RequiredKeywords == {"system_prompt", "user_prompt", "image_paths"}

\* the keywords of the call, screen_explain.py lines 439-445 and
\* screen-explain.py lines 410-415
CallKeywords(script) ==
    IF script = "screen_explain"
    THEN {"user_prompt", "image_paths", "model", "num_ctx", "quality_mode"}
    ELSE {"user_prompt", "image_paths", "model", "quality_mode"}

\* what a call of the client comes to, as main sees it: the text returned or
\* the exception raised, and whether a request reached the backend
ClientOutcomes ==
    { [kind |-> "text", text |-> t, err |-> NoErr, contacted |-> TRUE] :
        t \in ClientTexts }
    \cup { [kind |-> "error", text |-> <<>>, err |-> e, contacted |-> TRUE] :
             e \in TransportErrors }
    \cup { [kind |-> "error", text |-> <<>>, err |-> PrepError,
            contacted |-> FALSE] }

\* the call: Python binds the arguments before the body runs, and a missing
\* required keyword raises TypeError
OllamaChatWithImages(keywords) ==
    IF RequiredKeywords \subseteq keywords
    THEN ClientOutcomes
    ELSE { [kind |-> "error", text |-> <<>>, err |-> TypeError,
            contacted |-> FALSE] }

FileNotFoundError == Err("FileNotFoundError", 0, "")

\* history of an invocation of main: the stat of its images, its keys, whether
\* a lookup hit, whether the client was called and a request reached the
\* backend, how it ended ("ok" | "error" | "crash"), what it printed, the
\* index and the result files it found, the steps it took, in order, and
\* what _ensure_mirrored returned, copied, found and left
NoRun ==
    [n |-> 0, meta |-> <<>>, fk |-> NoKey, ck |-> NoKey, fast_hit |-> FALSE,
     content_hit |-> FALSE, called |-> FALSE, contacted |-> FALSE,
     exit |-> "none", output |-> NoAnalysis, err |-> NoErr,
     index_before |-> {}, index_ok_before |-> TRUE, results_before |-> {},
     steps |-> <<>>, dsts |-> <<>>, copied |-> {}, mirror_before |-> {},
     mirror_after |-> {}]

Meta(imgs) == [i \in 1..Len(imgs) |-> <<src[imgs[i]].size, src[imgs[i]].mtime>>]

StartRun(fk) ==
    [NoRun EXCEPT !.n = last_run.n + 1, !.meta = Meta(job.imgs), !.fk = fk,
                  !.index_before = index, !.index_ok_before = index_ok,
                  !.results_before = results]

InitMainIdle ==
    /\ job = [script |-> "none", imgs |-> <<>>, force_new |-> FALSE,
              model |-> None, ctx |-> 0, quality |-> FALSE]
    /\ src = [p \in {P1, P2} |-> [size |-> 0, mtime |-> 1, data |-> "x"]]
    /\ now = 3
    /\ index = {}
    /\ index_ok = TRUE
    /\ results = {}
    /\ last_run = NoRun
    /\ prev_run = NoRun

InitMain ==
    /\ job \in Jobs
    /\ src \in {s \in [{P1, P2} -> ImageFiles] :
                  s[P2] = [size |-> 2, mtime |-> 1, data |-> "x"]}
    /\ now = 3
    /\ index = {}
    /\ index_ok = TRUE
    /\ results = {}
    /\ last_run = NoRun
    /\ prev_run = NoRun

(***************************************************************************)
(* _prune_mirror_dir statement by statement, while another process         *)
(* deletes files of the mirror directory: screen_explain.py lines 225-245  *)
(* and screen-explain.py lines 300-343.  iterdir() yields the names that   *)
(* were in the directory when it was called, in any order.                 *)
(***************************************************************************)
NoPruning ==
    [script |-> "none", at |-> "idle", max_files |-> 0, max_bytes |-> 0,
     todo |-> <<>>, cur |-> 0, files |-> <<>>, total |-> 0, pass |-> 0,
     err |-> NoErr]

InitPrIdle == pr = NoPruning

\* the directories the race is explored on: files of size 2
RaceDirectories == {d \in Directories : \A f \in d : f.size = 2}

InitPr ==
    /\ mirror \in RaceDirectories
    /\ prune_op = NoPrune
    /\ \E script \in {"screen_explain", "screen-explain"},
          max_files \in {1, MaxFiles}, max_bytes \in {2, 2 * MaxFiles} :
          pr = [NoPruning EXCEPT !.script = script, !.at = "iterdir",
                                 !.max_files = max_files, !.max_bytes = max_bytes,
                                 !.pass = 1]

\* the orders in which iterdir() can yield a set of names
RECURSIVE Listings(_)
Listings(names) ==
    IF names = {} THEN {<<>>}
    ELSE UNION { {<<n>> \o s : s \in Listings(names \ {n})} : n \in names }

\* files.sort(key=lambda t: t[2]): stable, oldest first
RECURSIVE SortFilesByMtime(_)
SortFilesByMtime(files) ==
    IF files = <<>> THEN <<>>
    ELSE LET i == CHOOSE k \in 1..Len(files) :
                     /\ \A j \in 1..Len(files) : files[k].mtime <= files[j].mtime
                     /\ \A j \in 1..(k - 1) : files[j].mtime > files[k].mtime
         IN  <<files[i]>> \o
             SortFilesByMtime(SubSeq(files, 1, i - 1) \o
                              SubSeq(files, i + 1, Len(files)))

Exists(name) == \E f \in mirror : f.name = name

PrFrame == UNCHANGED <<clientVars, prune_op, mainVars, io, img, sp, cc>>

\* for p in MIRROR_DIR.iterdir()
IterDir ==
    /\ pr.at = "iterdir"
    /\ \E todo \in Listings({f.name : f \in mirror}) :
          pr' = [pr EXCEPT !.at = "is_file", !.todo = todo, !.files = <<>>,
                           !.total = 0]
    /\ UNCHANGED mirror
    /\ PrFrame

\* p.is_file(): False for a name that is gone; after the last name, files.sort
IsFile ==
    /\ pr.at = "is_file"
    /\ pr' = IF pr.todo = <<>>
             THEN [pr EXCEPT !.at = IF pr.pass = 1 THEN "count" ELSE "bytes",
                             !.files = SortFilesByMtime(pr.files)]
             ELSE IF Exists(Head(pr.todo))
             THEN [pr EXCEPT !.at = "stat", !.cur = Head(pr.todo),
                             !.todo = Tail(pr.todo)]
             ELSE [pr EXCEPT !.todo = Tail(pr.todo)]
    /\ UNCHANGED mirror
    /\ PrFrame

\* st = p.stat(); files.append(...); total += st.st_size.  stat of a name that
\* is gone raises FileNotFoundError: out of _prune_mirror_dir in
\* screen_explain.py (lines 230-233), caught in screen-explain.py (304-311)
StatFile ==
    /\ pr.at = "stat"
    /\ pr' = IF Exists(pr.cur)
             THEN [pr EXCEPT !.at = "is_file",
                             !.files = Append(pr.files, FileNamed(mirror, pr.cur)),
                             !.total = pr.total + FileNamed(mirror, pr.cur).size]
             ELSE IF pr.script = "screen_explain"
             THEN [pr EXCEPT !.at = "raised", !.err = FileNotFoundError]
             ELSE [pr EXCEPT !.at = "is_file"]
    /\ UNCHANGED mirror
    /\ PrFrame

\* p.unlink(missing_ok=True); total -= sz (screen_explain.py), and
\* _delete_one (screen-explain.py): total is left when unlink raises
Unlinked(p) ==
    [pr EXCEPT !.files = Tail(pr.files),
               !.total = IF pr.script = "screen_explain" \/ Exists(p.name)
                         THEN pr.total - p.size ELSE pr.total]

\* while len(files) > max_files; screen-explain.py lists the directory again
\* after it
CountLoop ==
    /\ pr.at = "count"
    /\ IF Len(pr.files) > pr.max_files
       THEN /\ pr' = Unlinked(Head(pr.files))
            /\ mirror' = {f \in mirror : f.name # Head(pr.files).name}
       ELSE /\ pr' = IF pr.script = "screen_explain"
                     THEN [pr EXCEPT !.at = "bytes"]
                     ELSE [pr EXCEPT !.at = "iterdir", !.pass = 2]
            /\ UNCHANGED mirror
    /\ PrFrame

\* while total > max_bytes and files
BytesLoop ==
    /\ pr.at = "bytes"
    /\ IF pr.total > pr.max_bytes /\ pr.files # <<>>
       THEN /\ pr' = Unlinked(Head(pr.files))
            /\ mirror' = {f \in mirror : f.name # Head(pr.files).name}
       ELSE /\ pr' = [pr EXCEPT !.at = "returned"]
            /\ UNCHANGED mirror
    /\ PrFrame

\* another process deletes a file of the mirror directory
ConcurrentUnlink ==
    /\ pr.at \notin {"idle", "returned", "raised"}
    /\ \E f \in mirror : mirror' = mirror \ {f}
    /\ UNCHANGED pr
    /\ PrFrame

NextPr == IterDir \/ IsFile \/ StatFile \/ CountLoop \/ BytesLoop \/ ConcurrentUnlink
\* screen_explain.py main
Main ==
    /\ job.script = "screen_explain"
    /\ last_run.n < MaxRuns
    /\ now' = now + 1
    /\ prev_run' = last_run
    /\ LET imgs == job.imgs
           prompt == BuildPrompt(job.script, Len(imgs))
           model_sig == ModelSig(job)
           idx == ReadIndex(index_ok, index)
           fk == FastKey(Stat(imgs), prompt, model_sig)
           run == StartRun(fk)
           pre == IF job.force_new THEN <<>> ELSE <<"fast_lookup">>
           cached == {r \in results : /\ r.ck \in IndexGet(idx, fk)
                                       /\ r.ext = "json" /\ r.valid}
       IN  IF ~job.force_new /\ cached # {}
           THEN /\ last_run' = [run EXCEPT !.fast_hit = TRUE, !.exit = "ok",
                                  !.steps = pre,
                                  !.output = (CHOOSE r \in cached : TRUE).content]
                /\ UNCHANGED <<mirror, prune_op, index, index_ok, results>>
           ELSE LET m == EnsureMirrored(imgs, mirror, FALSE)
                    ran == [run EXCEPT !.dsts = m.dsts, !.copied = m.copied,
                                       !.mirror_before = mirror,
                                       !.mirror_after = m.dir]
                IN  \E deleted \in PruneDeletions(m.dir, MIRROR_MAX_FILES,
                                                  MIRROR_MAX_BYTES) :
                    LET dir == m.dir \ Range(deleted)
                    IN  /\ mirror' = dir
                        /\ prune_op' = [script |-> "screen_explain",
                                        max_files |-> MIRROR_MAX_FILES,
                                        max_bytes |-> MIRROR_MAX_BYTES,
                                        before |-> m.dir, deleted |-> deleted]
                        /\ IF ~Present(m.dsts, dir)
                           THEN /\ last_run' = [ran EXCEPT !.exit = "crash",
                                                  !.steps = pre \o <<"mirror", "prune">>,
                                                  !.err = FileNotFoundError]
                                /\ UNCHANGED <<index, index_ok, results>>
                           ELSE LET ck == ContentKey(MirrorStat(m.dsts, dir),
                                                     prompt, model_sig)
                                IN  \E o \in OllamaChatWithImages(
                                                 CallKeywords(job.script)) :
                                    IF o.kind = "error"
                                    THEN /\ last_run' =
                                              [ran EXCEPT !.ck = ck,
                                                 !.called = TRUE,
                                                 !.contacted = o.contacted,
                                                 !.steps = pre \o <<"mirror", "prune",
                                                                     "call">>,
                                                 !.exit = "error", !.err = o.err]
                                         /\ UNCHANGED <<index, index_ok, results>>
                                    ELSE /\ results' =
                                              WriteResult(results, ck, "json",
                                                          SafeParseModel(o.text))
                                         /\ index' = IndexPut(idx, fk, ck)
                                         /\ index_ok' = TRUE
                                         /\ last_run' =
                                              [ran EXCEPT !.ck = ck,
                                                 !.called = TRUE,
                                                 !.contacted = o.contacted,
                                                 !.steps = pre \o <<"mirror", "prune",
                                                     "call", "write_result",
                                                     "write_index">>,
                                                 !.exit = "ok",
                                                 !.output = SafeParseModel(o.text)]
    /\ UNCHANGED <<clientVars, job, src, io, img, sp, pr, cc>>

\* screen-explain.py main
MainLegacy ==
    /\ job.script = "screen-explain"
    /\ last_run.n < MaxRuns
    /\ now' = now + 1
    /\ prev_run' = last_run
    /\ LET imgs == job.imgs
           prompt == BuildPrompt(job.script, Len(imgs))
           model_sig == ModelSig(job)
           fk == FastKeyLegacy(StatResolved(imgs), prompt, model_sig)
           run == StartRun(fk)
           pre == IF job.force_new THEN <<>> ELSE <<"fast_lookup">>
           mid == pre \o <<"mirror", "prune", "write_index">>
                      \o (IF job.force_new THEN <<>> ELSE <<"content_lookup">>)
           first == IndexGet(ReadIndex(index_ok, index), fk)
       IN  IF ~job.force_new /\ ReadCachedRaises(results, first)
           THEN /\ last_run' = [run EXCEPT !.exit = "crash",
                                  !.err = JSONDecodeError, !.steps = pre]
                /\ UNCHANGED <<mirror, prune_op, index, index_ok, results>>
           ELSE IF ~job.force_new /\ ReadCached(results, first) # {}
           THEN /\ last_run' = [run EXCEPT !.fast_hit = TRUE, !.exit = "ok",
                                  !.steps = pre,
                                  !.output = CHOOSE c \in ReadCached(results, first) : TRUE]
                /\ UNCHANGED <<mirror, prune_op, index, index_ok, results>>
           ELSE LET m == EnsureMirrored(imgs, mirror, TRUE)
                    ran == [run EXCEPT !.dsts = m.dsts, !.copied = m.copied,
                                       !.mirror_before = mirror,
                                       !.mirror_after = m.dir]
                IN  \E deleted \in PruneDeletionsLegacy(m.dir, MIRROR_MAX_FILES,
                                                        MIRROR_MAX_BYTES) :
                    LET dir == m.dir \ Range(deleted)
                    IN  /\ mirror' = dir
                        /\ prune_op' = [script |-> "screen-explain",
                                        max_files |-> MIRROR_MAX_FILES,
                                        max_bytes |-> MIRROR_MAX_BYTES,
                                        before |-> m.dir, deleted |-> deleted]
                        /\ IF ~Present(m.dsts, dir)
                           THEN /\ last_run' = [ran EXCEPT !.exit = "crash",
                                                  !.steps = pre \o <<"mirror", "prune">>,
                                                  !.err = FileNotFoundError]
                                /\ UNCHANGED <<index, index_ok, results>>
                           ELSE LET ck == ContentKeyLegacy(
                                              MirrorBytes(m.dsts, dir), prompt,
                                              model_sig)
                                    again == ReadCached(results, {ck})
                                IN  /\ index' = IndexPut(ReadIndex(index_ok, index),
                                                         fk, ck)
                                    /\ index_ok' = TRUE
                                    /\ IF ~job.force_new
                                          /\ ReadCachedRaises(results, {ck})
                                       THEN /\ last_run' =
                                                 [ran EXCEPT !.ck = ck,
                                                    !.exit = "crash",
                                                    !.err = JSONDecodeError,
                                                    !.steps = mid]
                                            /\ UNCHANGED results
                                       ELSE IF ~job.force_new /\ again # {}
                                       THEN /\ last_run' =
                                                 [ran EXCEPT !.ck = ck,
                                                    !.content_hit = TRUE,
                                                    !.steps = mid,
                                                    !.exit = "ok",
                                                    !.output =
                                                       CHOOSE c \in again : TRUE]
                                            /\ UNCHANGED results
                                       ELSE \E o \in OllamaChatWithImages(
                                                        CallKeywords(job.script)) :
                                            IF o.kind = "error"
                                            THEN /\ last_run' =
                                                      [ran EXCEPT !.ck = ck,
                                                         !.called = TRUE,
                                                         !.contacted = o.contacted,
                                                         !.steps = mid \o <<"call">>,
                                                         !.exit = "error",
                                                         !.err = o.err]
                                                 /\ UNCHANGED results
                                            ELSE LET a == SafeParseModel(o.text)
                                                 IN  /\ results' =
                                                          WriteResult(results, ck,
                                                             IF a.parsed
                                                             THEN "json"
                                                             ELSE "txt", a)
                                                     /\ last_run' =
                                                          [ran EXCEPT !.ck = ck,
                                                             !.called = TRUE,
                                                             !.contacted =
                                                                o.contacted,
                                                             !.steps = mid \o
                                                                <<"call", "write_result">>,
                                                             !.exit = "ok",
                                                             !.output = a]
    /\ UNCHANGED <<clientVars, job, src, io, img, sp, pr, cc>>

\* the user rewrites the first source image between two invocations
RewriteImage ==
    /\ last_run.n < MaxRuns
    /\ \E f \in ImageFiles :
          /\ f # src[P1]
          /\ src' = [src EXCEPT ![P1] = f]
    /\ UNCHANGED <<clientVars, fsVars, job, now, index, index_ok, results, last_run,
                   prev_run, io, img, sp, pr, cc>>

(***************************************************************************)
(* CorrectionCache, helper/cache_helper.py: a dict of key -> [response,    *)
(* ts] shared by the threads of the process, every method body under one   *)
(* lock.  The dict is a sequence of entries in insertion order, as a       *)
(* Python dict is; the clock is in hours.  A thread takes the lock with    *)
(* the call it makes (CcEnter), then runs the body and releases the lock.  *)
(***************************************************************************)
MaxThreads == 2
MaxCacheSize == 4
MaxClock == 2

ttl_hours == 24

CcTexts == {<<"a">>, <<"A">>, <<" ", "a">>, <<"b">>, <<"c">>, <<"d">>}
CcModes == {"coach"}

\* str.lower, on the characters of CcTexts
Lower(text) == [i \in 1..Len(text) |-> IF text[i] = "A" THEN "a" ELSE text[i]]

\* get_key, lines 28-41: md5 of "<normalized>:<mode>", taken as injective
GetKey(text, mode) == <<Lower(Strip(text)), mode>>

\* the responses english_teacher.py caches: a TeachOut with its audio file
CcResponses == {[kind |-> "TeachOut", audio_path |-> "a.wav"]}
NoResponseCached == [kind |-> "none", audio_path |-> "none"]

NoCall == [op |-> "none", key |-> <<>>, response |-> NoResponseCached]
NoReturn == [kind |-> "none", response |-> NoResponseCached, count |-> 0]

InitCcIdle ==
    cc = [max_size |-> 0, cache |-> <<>>, clock |-> 0, lock |-> 0,
          call |-> NoCall, ret |-> NoReturn]

\* a process that has just started: _cache = {} (line 23)
InitCc ==
    \E m \in 1..MaxCacheSize :
        cc = [max_size |-> m, cache |-> <<>>, clock |-> 0, lock |-> 0,
              call |-> NoCall, ret |-> NoReturn]

CcKeys(cache) == {cache[i].key : i \in 1..Len(cache)}
CcIndex(cache, key) == CHOOSE i \in 1..Len(cache) : cache[i].key = key
CcRemove(cache, i) == SubSeq(cache, 1, i - 1) \o SubSeq(cache, i + 1, Len(cache))

\* the first entry of sorted(cache.items(), key=ts): the sort is stable
CcOldest(cache) ==
    CHOOSE i \in 1..Len(cache) :
        \A j \in 1..Len(cache) :
            \/ cache[i].ts < cache[j].ts
            \/ cache[i].ts = cache[j].ts /\ i <= j

RECURSIVE CcEvict(_, _)
CcEvict(cache, n) ==
    IF n = 0 THEN cache ELSE CcEvict(CcRemove(cache, CcOldest(cache)), n - 1)

\* _evict_oldest, lines 103-113
EvictOldest(cache) == CcEvict(cache, Len(cache) \div 4)

\* lines 90-96: the copy without audio_path, or the object itself
CachedResponse(response) ==
    IF response.kind = "TeachOut"
    THEN [response EXCEPT !.audio_path = "None"]
    ELSE response

\* set, lines 85-101, under the lock
CcSet(cache, key, response, clock, max_size) ==
    LET kept == IF Len(cache) >= max_size THEN EvictOldest(cache) ELSE cache
        entry == [key |-> key, response |-> CachedResponse(response), ts |-> clock]
    IN  IF key \in CcKeys(kept)
        THEN [kept EXCEPT ![CcIndex(kept, key)] = entry]
        ELSE Append(kept, entry)

\* get, lines 57-68, under the lock: [cache, ret]
CcGet(cache, key, clock) ==
    IF key \notin CcKeys(cache)
    THEN [cache |-> cache, ret |-> NoReturn]
    ELSE LET i == CcIndex(cache, key)
         IN  IF clock - cache[i].ts > ttl_hours
             THEN [cache |-> CcRemove(cache, i), ret |-> NoReturn]
             ELSE [cache |-> cache,
                   ret |-> [kind |-> "response", response |-> cache[i].response,
                            count |-> 0]]

CcFrame == UNCHANGED <<clientVars, fsVars, mainVars, io, img, sp, pr>>

\* a thread calls get, set or clear and takes the lock
CcEnter ==
    /\ cc.max_size > 0
    /\ cc.lock = 0
    /\ \E t \in 1..MaxThreads, op \in {"get", "set", "clear"} :
       \E text \in IF op = "clear" THEN {<<>>} ELSE CcTexts, mode \in CcModes :
       \E response \in IF op = "set" THEN CcResponses ELSE {NoResponseCached} :
          cc' = [cc EXCEPT !.lock = t, !.ret = NoReturn,
                           !.call = [op |-> op,
                                     key |-> IF op = "clear" THEN <<>>
                                             ELSE GetKey(text, mode),
                                     response |-> response]]
    /\ CcFrame

CcRunGet ==
    /\ cc.lock # 0 /\ cc.call.op = "get"
    /\ LET g == CcGet(cc.cache, cc.call.key, cc.clock)
       IN  cc' = [cc EXCEPT !.cache = g.cache, !.ret = g.ret, !.lock = 0,
                            !.call = NoCall]
    /\ CcFrame

CcRunSet ==
    /\ cc.lock # 0 /\ cc.call.op = "set"
    /\ cc' = [cc EXCEPT !.cache = CcSet(cc.cache, cc.call.key, cc.call.response,
                                        cc.clock, cc.max_size),
                        !.ret = NoReturn, !.lock = 0, !.call = NoCall]
    /\ CcFrame

\* clear, lines 123-126
CcRunClear ==
    /\ cc.lock # 0 /\ cc.call.op = "clear"
    /\ cc' = [cc EXCEPT !.cache = <<>>,
                        !.ret = [kind |-> "count", response |-> NoResponseCached,
                                 count |-> Len(cc.cache)],
                        !.lock = 0, !.call = NoCall]
    /\ CcFrame

\* datetime.now() advances
CcTick ==
    /\ cc.max_size > 0
    /\ cc.clock < MaxClock * ttl_hours
    /\ cc' = [cc EXCEPT !.clock = cc.clock + ttl_hours]
    /\ CcFrame

NextCc == CcEnter \/ CcRunGet \/ CcRunSet \/ CcRunClear \/ CcTick

CcInit == InitCc /\ InitClientIdle /\ InitFsIdle /\ InitMainIdle /\ InitIoIdle /\ InitImgIdle /\ InitSpIdle /\ InitPrIdle

SpecCc == CcInit /\ [][NextCc]_vars
NextMain == Main \/ MainLegacy \/ RewriteImage

MainInit == InitMain /\ InitFsIdle /\ InitClientIdle /\ InitIoIdle /\ InitImgIdle /\ InitSpIdle /\ InitPrIdle /\ InitCcIdle

SpecMain == MainInit /\ [][NextMain]_vars

PruneInit == InitPrune /\ InitClientIdle /\ InitMainIdle /\ InitIoIdle /\ InitImgIdle /\ InitSpIdle /\ InitPrIdle /\ InitCcIdle

SpecPrune == PruneInit /\ [][NextPrune]_vars

WriteInit == InitWrite /\ InitClientIdle /\ InitFsIdle /\ InitMainIdle /\ InitImgIdle /\ InitSpIdle /\ InitPrIdle /\ InitCcIdle

SpecWrite == WriteInit /\ [][NextWrite]_vars
ImgInit == InitImg /\ InitClientIdle /\ InitFsIdle /\ InitMainIdle /\ InitIoIdle /\ InitSpIdle /\ InitPrIdle /\ InitCcIdle

SpecImg == ImgInit /\ [][NextImg]_vars
SpInit == InitSp /\ InitClientIdle /\ InitFsIdle /\ InitMainIdle /\ InitIoIdle /\ InitImgIdle /\ InitPrIdle /\ InitCcIdle

\* the spinner thread is scheduled as long as it can run
SpecSp == SpInit /\ [][NextSp]_vars /\ WF_vars(Spinner)
PrInit == InitPr /\ InitClientIdle /\ InitMainIdle /\ InitIoIdle /\ InitImgIdle /\ InitSpIdle /\ InitCcIdle

SpecPr == PrInit /\ [][NextPr]_vars
Next == Attempt \/ Exhausted

Init == InitClient /\ InitFsIdle /\ InitMainIdle /\ InitIoIdle /\ InitImgIdle /\ InitSpIdle /\ InitPrIdle /\ InitCcIdle

Spec == Init /\ [][Next]_vars

(***************************************************************************)
(* main() started on a cache directory that is not empty. The cache        *)
(* directory and the mirror are files that outlive the process and the     *)
(* version of the scripts: SpecDisk starts from what the commit code of    *)
(* the script (screen_explain.py lines 457-461; screen-explain.py lines    *)
(* 396-400 and 430) leaves for the request of the command line, and from   *)
(* that state damaged: the index entry lost, the index file unreadable,    *)
(* the result file missing, the result file not parsable.                  *)
(***************************************************************************)
SeedMirror == EnsureMirrored(job.imgs, {}, job.script = "screen-explain")

SeedFk ==
    IF job.script = "screen_explain"
    THEN FastKey(Stat(job.imgs), BuildPrompt(job.script, Len(job.imgs)),
                 ModelSig(job))
    ELSE FastKeyLegacy(StatResolved(job.imgs),
                       BuildPrompt(job.script, Len(job.imgs)), ModelSig(job))

SeedCk ==
    IF job.script = "screen_explain"
    THEN ContentKey(MirrorStat(SeedMirror.dsts, SeedMirror.dir),
                    BuildPrompt(job.script, Len(job.imgs)), ModelSig(job))
    ELSE ContentKeyLegacy(MirrorBytes(SeedMirror.dsts, SeedMirror.dir),
                          BuildPrompt(job.script, Len(job.imgs)), ModelSig(job))

SeedResult(valid) ==
    [ck |-> SeedCk, ext |-> "json",
     content |-> SafeParseModel(<<"{", "a", "}">>), valid |-> valid]

Damages ==
    {"none", "entry_lost", "index_unreadable", "result_missing",
     "result_unparsable"}

InitDisk ==
    /\ job \in Jobs
    /\ src \in {s \in [{P1, P2} -> ImageFiles] :
                  s[P2] = [size |-> 2, mtime |-> 1, data |-> "x"]}
    /\ now = 3
    /\ \E d \in Damages :
          /\ mirror = SeedMirror.dir
          /\ index = IF d \in {"entry_lost", "index_unreadable"}
                     THEN {}
                     ELSE {[fk |-> SeedFk, ck |-> SeedCk]}
          /\ index_ok = (d # "index_unreadable")
          /\ results = IF d = "result_missing"
                       THEN {}
                       ELSE {SeedResult(d # "result_unparsable")}
    /\ prune_op = NoPrune
    /\ last_run = NoRun
    /\ prev_run = NoRun

DiskInit == InitDisk /\ InitClientIdle /\ InitIoIdle /\ InitImgIdle /\ InitSpIdle /\ InitPrIdle /\ InitCcIdle

SpecDisk == DiskInit /\ [][NextMain]_vars
(***************************************************************************)
(* main() on a mirror directory that is full: MIRROR_MAX_FILES files left  *)
(* by earlier requests, all newer than the source images of this one and   *)
(* older than the clock; and on a source image larger than                 *)
(* MIRROR_MAX_BYTES.                                                       *)
(***************************************************************************)
FullMirror ==
    { [name |-> <<k, "old.png", 2, 2 + k>>, size |-> 2, mtime |-> 2 + k,
       data |-> "x"] : k \in 1..MIRROR_MAX_FILES }

HugeImage == [size |-> MIRROR_MAX_BYTES + 1, mtime |-> 1, data |-> "x"]

InitFull ==
    /\ job \in Jobs
    /\ src \in {s \in [{P1, P2} -> ImageFiles \cup {HugeImage}] :
                  s[P2] = [size |-> 2, mtime |-> 1, data |-> "x"]}
    /\ now = 2 + MIRROR_MAX_FILES + 1
    /\ mirror \in {{}, FullMirror}
    /\ index = {}
    /\ index_ok = TRUE
    /\ results = {}
    /\ prune_op = NoPrune
    /\ last_run = NoRun
    /\ prev_run = NoRun

FullInit == InitFull /\ InitClientIdle /\ InitIoIdle /\ InitImgIdle /\ InitSpIdle /\ InitPrIdle /\ InitCcIdle

SpecFull == FullInit /\ [][NextMain]_vars
(***************************************************************************)
(* Vocabulary of the claims, stated from the specification's words and     *)
(* independently of the operators above.                                   *)
(***************************************************************************)
\* the configured ladder of a mode, in percent
Ladder(quality) == IF quality THEN <<90, 75>> ELSE <<60, 50, 40, 30>>

\* a timeout, a connection failure or a server-side 5xx
RetriableFailure(e) ==
    \/ e.cls = "Timeout"
    \/ e.cls = "ConnectionError"
    \/ e.cls = "HTTPError" /\ e.code \in 500..599

\* HTTP "not found", or a 400 with schema-rejection wording
ShapeMismatchSignal(e) ==
    /\ e.cls = "HTTPError"
    /\ e.code = 404 \/ (e.code = 400 /\ e.body # "")

\* empty or whitespace-only, or containing a template-leak marker
UnusableText(text) ==
    \/ \A i \in 1..Len(text) : text[i] = " "
    \/ \E i \in 1..Len(text) : text[i] \in Markers

\* the batch size in effect (the backend default when unset)
EffBatch(b) == IF b > 0 THEN b ELSE DEFAULT_NUM_BATCH

\* this step is a loop iteration
Attempted == Len(used') = Len(used) + 1

\* this step is a loop iteration that ended in a transport failure
TransportFailed == Attempted /\ att'.prep = "ok" /\ ~att'.out.some

\* the request of the last iteration went to the preferred endpoint, then to the other
Preferred == CallOrder(cfg.endpoint_pref)[1]
Alternate == CallOrder(cfg.endpoint_pref)[2]

(***************************************************************************)
(* Vocabulary of the cache claims: two consecutive invocations of the same *)
(* command line.                                                           *)
(***************************************************************************)
\* there are two invocations, and the size and mtime of every image are the
\* same in both
SameMetadata == prev_run.n > 0 /\ last_run.meta = prev_run.meta
\* the size or the mtime of an image changed between them
ChangedMetadata == prev_run.n > 0 /\ last_run.meta # prev_run.meta
\* the inference client raised in the invocation
ClientRaised(run) == run.called /\ run.exit = "error"

(***************************************************************************)
(* C1. Cache idempotence: of two consecutive invocations with the same     *)
(* prompt, model and image list, the size and mtime of the images          *)
(* unchanged, the first of which succeeded, the second makes no backend    *)
(* call and prints what the first printed.                                 *)
(* C1_Case is the case the claim is about; C1_CaseNeverHappens says that   *)
(* no invocation of main ever succeeds: the call of the client omits the   *)
(* required system_prompt.                                                 *)
(***************************************************************************)
C1_CacheIdempotence ==
    (SameMetadata /\ prev_run.exit = "ok" /\ ~job.force_new) =>
        /\ ~last_run.called
        /\ ~last_run.contacted
        /\ last_run.exit = "ok"
        /\ last_run.output = prev_run.output

C1_Case == SameMetadata /\ prev_run.exit = "ok"

C1_CaseNeverHappens == last_run.exit # "ok" /\ results = {}

(***************************************************************************)
(* C2. No error caching: when the inference client raises, the invocation  *)
(* creates no result file and no index entry, and the next invocation of   *)
(* the same command line on unchanged images reaches the backend again.    *)
(***************************************************************************)
C2_NoErrorCaching ==
    /\ ClientRaised(last_run) =>
          /\ results = last_run.results_before
          /\ index = last_run.index_before
    /\ (SameMetadata /\ ClientRaised(prev_run)) => last_run.contacted

(***************************************************************************)
(* C3. Invalidation on change: when the size or the mtime of a source      *)
(* image changes between two invocations of the same screen_explain.py     *)
(* command line, the second computes another fast key, misses the          *)
(* fast-path lookup and reaches the backend.                               *)
(***************************************************************************)
C3_InvalidationOnChange ==
    (job.script = "screen_explain" /\ ChangedMetadata) =>
        /\ last_run.fk # prev_run.fk
        /\ ~last_run.fast_hit
        /\ last_run.contacted

\* the part of C3 that is about the keys and the lookup alone
C3_KeyAndLookup ==
    (job.script = "screen_explain" /\ ChangedMetadata) =>
        /\ last_run.fk # prev_run.fk
        /\ ~last_run.fast_hit


(***************************************************************************)
(* C4. Scale monotonicity: the scales of the successive iterations of one  *)
(* invocation start at the first ladder entry of the requested mode, never *)
(* increase, and each iteration uses the scale of the previous one or the  *)
(* ladder entry right after it.                                            *)
(***************************************************************************)
C4_ScaleMonotone ==
    LET ladder == Ladder(cfg.quality_mode)
    IN  /\ used # <<>> => used[1].scale = ladder[1]
        /\ \A i \in 1..(Len(used) - 1) :
              /\ used[i + 1].scale <= used[i].scale
              /\ \/ used[i + 1].scale = used[i].scale
                 \/ \E k \in 1..(Len(ladder) - 1) :
                       used[i].scale = ladder[k] /\ used[i + 1].scale = ladder[k + 1]

\* the whole normal ladder was walked, one scale twice
C4_Witness ==
    /\ pc = "raised"
    /\ ~cfg.quality_mode
    /\ Len(used) = 5
    /\ {used[i].scale : i \in 1..Len(used)} = {60, 50, 40, 30}

(***************************************************************************)
(* C5. Batch floor: a retriable failure at a batch size above 16 is        *)
(* followed by a retry at the same scale with the batch halved but not     *)
(* below 16 (and never zero); at a batch size that cannot be halved it is  *)
(* followed by the next scale with the batch unchanged; nothing else       *)
(* changes the batch size.                                                 *)
(***************************************************************************)
C5_BatchFloor ==
    [][ /\ (TransportFailed /\ RetriableFailure(att'.err)) =>
              IF EffBatch(current_batch) > 16
              THEN /\ current_batch' < EffBatch(current_batch)
                   /\ current_batch' >= 16
                   /\ \/ current_batch' = EffBatch(current_batch) \div 2
                      \/ current_batch' = 16
                   /\ scale_idx' = scale_idx
              ELSE /\ current_batch' = current_batch
                   /\ scale_idx' = scale_idx + 1
        /\ current_batch' # current_batch =>
              TransportFailed /\ RetriableFailure(att'.err)
      ]_vars

\* the default batch was halved twice at the first scale, then the scale advanced
C5_Witness ==
    /\ Len(used) >= 4
    /\ used[1].scale = used[3].scale
    /\ used[1].batch = 64 /\ used[2].batch = 32 /\ used[3].batch = 16
    /\ used[4].scale < used[3].scale /\ used[4].batch = 16

(***************************************************************************)
(* C6. Endpoint fallback bounded: an iteration issues at most two          *)
(* requests, the first to the preferred endpoint and the second to the     *)
(* alternate; when the preferred endpoint signals a shape mismatch and the *)
(* alternate succeeds, it issues exactly these two.                        *)
(***************************************************************************)
C6_FallbackBounded ==
    /\ Len(att.calls) <= 2
    /\ Len(att.calls) >= 1 => att.calls[1].ep = Preferred
    /\ Len(att.calls) = 2 => att.calls[2].ep = Alternate
    /\ (Len(att.calls) >= 1 /\ ShapeMismatchSignal(att.calls[1].err)) =>
          Len(att.calls) = 2
    /\ (att.out.some /\ Len(att.calls) = 2) =>
          ShapeMismatchSignal(att.calls[1].err) /\ att.calls[2].err = NoErr

\* the preferred endpoint answered 404 and the alternate answered with a text
C6_Witness ==
    /\ Len(att.calls) = 2
    /\ att.calls[1].err.code = 404
    /\ att.calls[2].err = NoErr
    /\ pc = "returned"

(***************************************************************************)
(* C7. Non-retriable abort: an iteration that ends in a transport failure  *)
(* that is not retriable raises that error in the same step, and after the *)
(* client has raised or returned there is no further iteration.            *)
(***************************************************************************)
C7_NonRetriableAbort ==
    [][ /\ (TransportFailed /\ ~RetriableFailure(att'.err)) =>
              /\ pc' = "raised"
              /\ outcome'.kind = "error"
              /\ outcome'.err = [att'.err EXCEPT !.id = Len(used')]
        /\ pc # "loop" => ~Attempted
      ]_vars

\* raised at the first scale, with ladder entries and batch headroom left
C7_Witness ==
    /\ pc = "raised"
    /\ Len(used) = 1
    /\ att.err.cls = "HTTPError" /\ att.err.code = 400 /\ att.err.body = ""
    /\ EffBatch(current_batch) > 16

(***************************************************************************)
(* C8. Unusable output is never returned: a returned text is neither       *)
(* blank nor contains a marker; an iteration whose response is unusable    *)
(* records that as the latest error, appends the response to the log and   *)
(* goes to the next scale.                                                 *)
(***************************************************************************)
C8_UnusableNeverReturned ==
    /\ [](outcome.kind = "text" => ~UnusableText(outcome.text))
    /\ [][ (Attempted /\ att'.out.some /\ UnusableText(att'.out.text)) =>
              /\ pc' = "loop"
              /\ last_err'.cls = "RuntimeError"
              /\ last_err'.text = att'.out.text
              /\ last_err'.id = Len(used')
              /\ unusable_log'.n = unusable_log.n + 1
              /\ unusable_log'.last = att'.out.text
              /\ scale_idx' = scale_idx + 1
              /\ current_batch' = current_batch
         ]_vars

\* a template leak was answered at the first scale and a text returned at the second
C8_Witness ==
    /\ pc = "returned"
    /\ Len(used) = 2
    /\ unusable_log.n = 1
    /\ \E i \in 1..Len(unusable_log.last) : unusable_log.last[i] \in Markers

(***************************************************************************)
(* C9. Last error surfaced: when the ladder is exhausted, the error raised *)
(* is the one the last iteration recorded.                                 *)
(***************************************************************************)
C9_LastErrorSurfaced ==
    (pc = "raised" /\ att.next # "raise") =>
        /\ outcome.kind = "error"
        /\ outcome.err.id = Len(used)
        /\ LET e == [outcome.err EXCEPT !.id = 0]
           IN  CASE att.prep = "fail" -> e = PrepError
                 [] att.out.some -> e = UnusableError(att.out.text)
                 [] OTHER -> e = att.err

\* exhaustion after failures of three kinds, the last one a timeout
C9_Witness ==
    /\ pc = "raised" /\ att.next # "raise"
    /\ Len(used) >= 3
    /\ unusable_log.n >= 1
    /\ outcome.err.cls = "Timeout"

(***************************************************************************)
(* C10. Mirror retention bound: when _prune_mirror_dir(max_files,          *)
(* max_bytes) has returned, the mirror directory holds at most max_files   *)
(* files and at most max_bytes bytes, whatever it held before.             *)
(***************************************************************************)
C10_RetentionBound ==
    prune_op.script # "none" =>
        /\ Cardinality(mirror) <= prune_op.max_files
        /\ TotalSize(mirror) <= prune_op.max_bytes

\* a prune that had to delete for the count cap and then for the byte budget
C10_Witness ==
    /\ prune_op.script # "none"
    /\ Cardinality(prune_op.before) = 3
    /\ prune_op.max_files = 2
    /\ Len(prune_op.deleted) = 2
    /\ mirror # {}

(***************************************************************************)
(* C11. Oldest first, and no more than needed: when _prune_mirror_dir has  *)
(* returned, no file left is older than a file it deleted, and it deleted  *)
(* the fewest files, taken in the order of deletion, after which the count *)
(* cap and the byte budget both hold (or nothing is left).                 *)
(***************************************************************************)
\* the directory after the first j deletions of the last prune
AfterDeletions(j) ==
    prune_op.before \ {prune_op.deleted[i] : i \in 1..j}

\* the count cap and the byte budget hold of a directory
WithinCaps(dir) ==
    /\ Cardinality(dir) <= prune_op.max_files
    /\ TotalSize(dir) <= prune_op.max_bytes

C11_OldestFirstMinimal ==
    prune_op.script # "none" =>
        /\ mirror = AfterDeletions(Len(prune_op.deleted))
        /\ \A i \in 1..Len(prune_op.deleted) : prune_op.deleted[i] \in prune_op.before
        /\ \A i \in 1..Len(prune_op.deleted) : \A g \in mirror :
              prune_op.deleted[i].mtime <= g.mtime
        /\ \A i, j \in 1..Len(prune_op.deleted) :
              i < j => prune_op.deleted[i].mtime <= prune_op.deleted[j].mtime
        /\ \A j \in 0..(Len(prune_op.deleted) - 1) : ~WithinCaps(AfterDeletions(j))

\* one file deleted for the count cap, one more for the byte budget, and a
\* strictly newer file left
C11_Witness ==
    /\ prune_op.script # "none"
    /\ Cardinality(prune_op.before) = 3
    /\ prune_op.max_files = 2
    /\ prune_op.max_bytes = 3
    /\ Len(prune_op.deleted) = 2
    /\ \E g \in mirror : prune_op.deleted[2].mtime < g.mtime

(***************************************************************************)
(* C12. Commit ordering: the result file of a content key is written       *)
(* before the index entry that names the key, so that whenever an          *)
(* invocation of main has terminated, every index entry points to a        *)
(* content key whose result file exists.                                   *)
(***************************************************************************)
\* the content keys that have a result file
Stored == {r.ck : r \in results}

C12_CommitOrdering == \A e \in index : e.ck \in Stored

(***************************************************************************)
(* C13. Lookup ordering: an invocation without --force-new that makes a    *)
(* live inference attempt has looked the fast key up in the index first,   *)
(* then mirrored, then looked the content key up in the result store, and  *)
(* only then attempted inference.                                          *)
(***************************************************************************)
\* the places of a step in the steps of a run
Places(run, step) == {i \in 1..Len(run.steps) : run.steps[i] = step}

FoundUnderCk(run) ==
    {r \in run.results_before : r.ck = run.ck /\ r.valid}

C14_ContentKeyHit ==
    (/\ ~job.force_new
     /\ Places(last_run, "fast_lookup") # {}
     /\ ~last_run.fast_hit
     /\ FoundUnderCk(last_run) # {}) =>
        /\ last_run.exit = "ok"
        /\ \E r \in FoundUnderCk(last_run) : last_run.output = r.content
        /\ ~last_run.called
        /\ ~last_run.contacted
        /\ index_ok
        /\ [fk |-> last_run.fk, ck |-> last_run.ck] \in index

(***************************************************************************)
(* C15. A dangling or unreadable cache is a miss: when, at the lookup, the *)
(* index file is unreadable, or the index maps the fast key to a content   *)
(* key whose result file is missing or does not parse, the invocation does *)
(* not crash; it goes on to mirror its inputs and to the content-key       *)
(* lookup or the inference attempt.                                        *)
(***************************************************************************)
\* the content keys the index the run found gives for its fast key
Indexed(run) ==
    {e.ck : e \in {x \in run.index_before : x.fk = run.fk}}

\* the cache state the claim is about, as the run found it
DamagedCache(run) ==
    \/ ~run.index_ok_before
    \/ /\ run.index_ok_before
       /\ Indexed(run) # {}
       /\ \A r \in run.results_before : r.ck \in Indexed(run) => ~r.valid

C15_DegradesToMiss ==
    (~job.force_new /\ last_run.n > 0 /\ DamagedCache(last_run)) =>
        /\ last_run.exit # "crash"
        /\ ~last_run.fast_hit
        /\ Places(last_run, "mirror") # {}
        /\ Places(last_run, "call") # {} \/ last_run.content_hit

(***************************************************************************)
(* Vocabulary of the claims about writing a file of the cache directory.   *)
(***************************************************************************)
\* what a reader of the target path finds is nothing, the whole previous
\* content, or the whole text of one of the writers
TargetWhole ==
    \/ io.dirents[TargetPath] = 0
    \/ io.inodes[io.dirents[TargetPath]] = Previous
    \/ \E w \in DOMAIN io.procs :
          io.inodes[io.dirents[TargetPath]] = Text(w, io.procs[w].n)

(***************************************************************************)
(* C16. Atomic write under interruption: with one writer of the index (or  *)
(* of a result file), interrupted at any step or not, a reader of the      *)
(* target path finds the whole previous content or the whole new content,  *)
(* never a partly written file.                                            *)
(***************************************************************************)
C16_AtomicWrite == Len(io.procs) = 1 => TargetWhole

\* the part of C16 that is about atomic_write_text alone
C16_AtomicWriteText ==
    (Len(io.procs) = 1 /\ io.procs[1].kind = "atomic") => TargetWhole

(***************************************************************************)
(* C17. Concurrent writers never corrupt the index: with two invocations   *)
(* writing the index through atomic_write_text (the same temporary name)   *)
(* in any interleaving of their steps, neither of them interrupted, a      *)
(* reader of the index finds a whole index written by one of them or the   *)
(* whole previous one.                                                     *)
(***************************************************************************)
C17_ConcurrentWriters ==
    (/\ Len(io.procs) = 2
     /\ \A w \in DOMAIN io.procs :
           io.procs[w].kind = "atomic" /\ io.procs[w].pc # "dead") =>
        TargetWhole

C19_SnapSizeAlone ==
    img.stage = "returned" /\ img.rw >= 1 =>
        SnapSize(img.rw, img.rh, img.snap_mult, img.snap_min)[1] <= img.rw

(***************************************************************************)
(* C18. Cache write failure is non-fatal: when writing the result file or  *)
(* the index fails after a successful inference, the invocation still      *)
(* prints the analysis and reports the failure as a warning.  The case     *)
(* needs a call of the client that returned; C18_NoInferenceReturns says   *)
(* that no invocation has one.                                             *)
(***************************************************************************)
C18_Case == last_run.called /\ last_run.err = NoErr /\ last_run.exit = "ok"

C18_NoInferenceReturns == last_run.called => last_run.exit = "error"

(***************************************************************************)
(* C20. Idempotent mirroring: _ensure_mirrored copies a source only when   *)
(* no file exists at its mirror name; run again on sources of unchanged    *)
(* size and mtime it copies nothing, leaves the mirror directory as it     *)
(* found it and returns the same paths.                                    *)
(***************************************************************************)
Mirrored(run) == run.dsts # <<>>

C20_IdempotentMirroring ==
    /\ Mirrored(last_run) =>
          \A d \in last_run.copied :
              ~\E f \in last_run.mirror_before : f.name = d
    /\ (Mirrored(prev_run) /\ Mirrored(last_run) /\ SameMetadata) =>
          /\ last_run.copied = {}
          /\ last_run.mirror_after = last_run.mirror_before
          /\ last_run.dsts = prev_run.dsts

C20_Witness ==
    /\ Mirrored(prev_run) /\ Mirrored(last_run) /\ SameMetadata
    /\ prev_run.copied # {}
    /\ last_run.copied = {}
    /\ last_run.mirror_before # {}

(***************************************************************************)
(* C21. The spinner is always joined: with_spinner returns what fn         *)
(* returned or raises what fn raised; whenever it has returned or raised,  *)
(* the stop flag is set and the spinner thread has terminated; and once    *)
(* the flag is set the spinner thread terminates.                          *)
(***************************************************************************)
SpExited == sp.main \in {"returned", "raised"}

C21_SpinnerJoined ==
    /\ [](SpExited => /\ sp.stop
                      /\ sp.thread = "terminated"
                      /\ sp.out = sp.fn
                      /\ (sp.main = "returned") = (sp.fn.kind = "return"))
    /\ (sp.stop ~> sp.thread = "terminated")

\* fn raised; with_spinner raised the same after the thread wrote its last line
C21_Witness ==
    /\ sp.main = "raised"
    /\ sp.out = [kind |-> "raise", v |-> "e1"]
    /\ sp.thread = "terminated"
    /\ sp.stderr = "done"
    /\ sp.idx = 2

(***************************************************************************)
(* C22. An explicit context size is respected: when the caller passes a    *)
(* positive num_ctx, every request of the invocation, at every scale,      *)
(* batch size and endpoint, carries that value as options.num_ctx, and the *)
(* payload has no num_ctx of its own.                                      *)
(***************************************************************************)
C22_ExplicitCtxRespected ==
    cfg.num_ctx > 0 =>
        /\ Len(att.payloads) = Len(att.calls)
        /\ \A i \in 1..Len(att.payloads) :
              /\ "options" \in att.payloads[i].keys
              /\ "num_ctx" \notin att.payloads[i].keys
              /\ "num_ctx" \in DOMAIN att.payloads[i].options
              /\ att.payloads[i].options["num_ctx"] = cfg.num_ctx

\* both endpoints called at the last scale with the batch halved twice
C22_Witness ==
    /\ cfg.num_ctx = ExplicitCtx
    /\ cfg.num_ctx # MaxCtx(cfg.max_ctx)
    /\ Len(att.payloads) = 2
    /\ att.scale = 30
    /\ att.batch = 16

(***************************************************************************)
(* C23. No-attempt failure: an invocation that ends without an attempt     *)
(* having run, as one given zero images, makes no backend call and raises  *)
(* the generic error, not a recorded one.                                  *)
(***************************************************************************)
C23_NoAttemptFailure ==
    /\ (pc # "loop" /\ used = <<>>) =>
          outcome.kind = "error" /\ outcome.err = UnknownError
    /\ cfg.n_images = 0 =>
          /\ att.calls = <<>>
          /\ pc # "loop" => outcome.kind = "error" /\ outcome.err = UnknownError

(***************************************************************************)
(* C24. A preparation failure skips the scale: the error is recorded, no   *)
(* request is sent at that scale, the batch size stays, and the loop goes  *)
(* on to the next ladder entry (or ends with the ladder) without raising   *)
(* from the iteration.                                                     *)
(***************************************************************************)
C24_PrepFailureSkipsScale ==
    att.prep = "fail" =>
        LET ladder == Ladder(cfg.quality_mode)
        IN  /\ att.calls = <<>>
            /\ att.next = "next_scale"
            /\ last_err.cls = "PrepError" /\ last_err.id = Len(used)
            /\ current_batch = att.batch
            /\ \E k \in 1..Len(ladder) : att.scale = ladder[k] /\ scale_idx = k + 1
            /\ pc = "raised" => att.scale = ladder[Len(ladder)]

\* the preparation failed at the first scale after the batch was halved, and
\* the loop goes on
C24_Witness ==
    /\ att.prep = "fail"
    /\ att.fault = "decode"
    /\ att.scale = 60
    /\ att.batch = 32
    /\ pc = "loop"

(***************************************************************************)
(* C25. A retriable transport error reaches the caller only after the      *)
(* ladder is exhausted: when the client raises a timeout, a connection     *)
(* failure or a 5xx, every scale of the ladder has been tried and at the   *)
(* last one the batch size could not be halved any more.                   *)
(***************************************************************************)
C25_RetriableOnlyAfterLadder ==
    (pc = "raised" /\ RetriableFailure(outcome.err)) =>
        LET ladder == Ladder(cfg.quality_mode)
        IN  /\ \A k \in 1..Len(ladder) :
                  \E i \in 1..Len(used) : used[i].scale = ladder[k]
            /\ att.scale = ladder[Len(ladder)]
            /\ EffBatch(att.batch) <= BATCH_FLOOR
            /\ scale_idx > Len(ladder)

\* a timeout raised after four scales, the batch halved from 64 to 16 on the way
C25_Witness ==
    /\ pc = "raised"
    /\ outcome.err.cls = "Timeout"
    /\ cfg.num_batch = DEFAULT_NUM_BATCH
    /\ att.scale = 30
    /\ att.batch = 16
    /\ Len(used) >= 6

(***************************************************************************)
(* C26. Automatic context size: without an explicit context size, the      *)
(* num_ctx of an attempt follows the largest prepared image dimension by   *)
(* thresholds: it is positive, at most the configured ceiling, not larger  *)
(* for smaller prepared images than for larger ones, and a small image     *)
(* gets a smaller budget than the ceiling kept for large ones.             *)
(***************************************************************************)
C26_AutoCtx ==
    (cfg.num_ctx = 0 /\ att.prep = "ok") =>
        /\ att.ctx > 0
        /\ att.ctx <= MaxCtx(cfg.max_ctx)
        /\ (att.dim > 0 /\ att.dim <= DEFAULT_SNAP_MIN) => att.ctx < MaxCtx(cfg.max_ctx)

\* what holds of the context size sent: positive and at most the ceiling
C26_Bounded ==
    (cfg.num_ctx = 0 /\ att.prep = "ok") =>
        att.ctx > 0 /\ att.ctx <= MaxCtx(cfg.max_ctx)

(***************************************************************************)
(* C27. Fallback only on shape mismatch: within an attempt the alternate   *)
(* endpoint is called only when the preferred endpoint failed with HTTP    *)
(* 404 or with HTTP 400 and schema-rejection wording; after its success or *)
(* any other failure the alternate endpoint is not called.                 *)
(***************************************************************************)
C27_FallbackOnlyOnMismatch ==
    /\ (\E i \in 1..Len(att.calls) : att.calls[i].ep = Alternate) =>
          /\ att.calls[1].ep = Preferred
          /\ ShapeMismatchSignal(att.calls[1].err)
    /\ (att.calls # <<>> /\ ~ShapeMismatchSignal(att.calls[1].err)) =>
          Len(att.calls) = 1 /\ att.calls[1].ep = Preferred

\* the preferred endpoint failed with a plain 400 and nothing else was called
C27_Witness ==
    /\ Len(att.calls) = 1
    /\ att.calls[1].err.cls = "HTTPError"
    /\ att.calls[1].err.code = 400
    /\ att.calls[1].err.body = ""
    /\ cfg.endpoint_pref = "generate"

(***************************************************************************)
(* C29. Debug capture does not interfere: an invocation with debug capture *)
(* on does what the same invocation does with it off, also when writing a  *)
(* debug file fails: an attempt whose images decode is sent to the backend *)
(* and only an image that fails to decode makes the preparation fail.      *)
(***************************************************************************)
C29_DebugDoesNotInterfere ==
    /\ att.prep = "fail" => att.fault = "decode"
    /\ att.fault = "debug" => att.calls # <<>> /\ att.next # "next_scale"

(***************************************************************************)
(* C28. Pruning tolerates concurrent deletion: when another process        *)
(* deletes a mirror file at any point while _prune_mirror_dir runs,        *)
(* between listing, stat and unlink, _prune_mirror_dir raises no error.    *)
(***************************************************************************)
C28_PruneToleratesDeletion == pr.at # "raised"

\* the same of _prune_mirror_dir of screen-explain.py alone
C28_LegacyTolerates == pr.script = "screen-explain" => pr.at # "raised"

(***************************************************************************)
(* C30. Index entries are never deleted automatically: over any sequence   *)
(* of invocations of a single writer, a FastKey that is a key of the index *)
(* stays a key of the index; its value may be overwritten.                 *)
(***************************************************************************)
IndexKeys(idx) == {e.fk : e \in idx}

C30_IndexKeysKept == [][IndexKeys(index) \subseteq IndexKeys(index')]_vars

\* an invocation added a second key beside the one of an earlier invocation
C30_Witness ==
    /\ last_run.n >= 2
    /\ last_run.index_before # {}
    /\ IndexKeys(last_run.index_before) \subseteq IndexKeys(index)
    /\ IndexKeys(index) # IndexKeys(last_run.index_before)

\* main() of screen_explain.py never writes the index
C30_NewScriptNeverWrites == job.script = "screen_explain" => index = {}

(***************************************************************************)
(* C31. Only validated successes are persisted: in every reachable state,  *)
(* also after an interruption, every result file of the result store holds *)
(* the whole output of an inference attempt that succeeded and passed      *)
(* validation; no partial result and no error is stored under a content    *)
(* key.  The case needs a result file written by an invocation;            *)
(* C31_NothingStored says that no invocation writes one.                   *)
(***************************************************************************)
C31_Case == results # {}

C31_NothingStored == results = {} /\ "write_result" \notin Range(last_run.steps)

(***************************************************************************)
(* C32. FastKey covers the source path: two requests with the same model   *)
(* and prompt whose image lists differ in the source path of an image, as  *)
(* the same file name in two directories with equal size and mtime, get    *)
(* different FastKeys.                                                     *)
(***************************************************************************)
\* image lists of one length, so that build_prompt gives them one prompt
ImageLists == {<<P1>>, <<P2>>, <<P1, P2>>, <<P2, P1>>}

\* _fast_key as the script of the job computes it
FastKeyOf(script, imgs) ==
    IF script = "screen_explain"
    THEN FastKey(Stat(imgs), BuildPrompt(script, Len(imgs)), ModelSig(job))
    ELSE FastKeyLegacy(StatResolved(imgs), BuildPrompt(script, Len(imgs)),
                       ModelSig(job))

C32_FastKeyCoversPath ==
    job.script # "none" =>
        \A a, b \in ImageLists :
            (Len(a) = Len(b) /\ a # b) =>
                FastKeyOf(job.script, a) # FastKeyOf(job.script, b)

\* the same of _fast_key of screen-explain.py, which signs the resolved path
C32_LegacyCoversPath ==
    job.script = "screen-explain" =>
        \A a, b \in ImageLists :
            (Len(a) = Len(b) /\ a # b) =>
                FastKeyOf(job.script, a) # FastKeyOf(job.script, b)

(***************************************************************************)
(* C33. Mirrored inputs survive pruning: after _ensure_mirrored and the    *)
(* _prune_mirror_dir that follows it, every mirrored path of the current   *)
(* request still exists in the mirror directory, whatever the directory    *)
(* held before and however many images the request has.                    *)
(***************************************************************************)
C33_MirroredSurvivePruning == Mirrored(last_run) => Present(last_run.dsts, mirror)

\* the same on a directory that was empty, with images below the byte cap
C33_SmallRequestsSurvive ==
    (Mirrored(last_run) /\ last_run.mirror_before = {}
        /\ \A i \in 1..Len(last_run.meta) :
               last_run.meta[i][1] <= MIRROR_MAX_BYTES) =>
        Present(last_run.dsts, mirror)

(***************************************************************************)
(* C34. The retry loop terminates: every iteration of the client loop      *)
(* returns, raises, strictly decreases the effective batch size or         *)
(* advances the scale index by one; an invocation runs at most as many     *)
(* iterations as the ladder has scales plus the halvings that take the     *)
(* configured batch size to the floor, and each iteration issues at most   *)
(* two requests.                                                           *)
(***************************************************************************)
RECURSIVE Halvings(_)
Halvings(b) == IF b > 16 THEN 1 + Halvings(IF b \div 2 < 16 THEN 16 ELSE b \div 2) ELSE 0

MaxAttempts == Len(Ladder(cfg.quality_mode)) + Halvings(EffBatch(cfg.num_batch))

C34_LoopTerminates ==
    [][ Attempted =>
          /\ \/ pc' = "returned"
             \/ pc' = "raised"
             \/ EffBatch(current_batch') < EffBatch(current_batch)
                  /\ scale_idx' = scale_idx
             \/ scale_idx' = scale_idx + 1 /\ current_batch' = current_batch
          /\ Len(used') <= MaxAttempts
          /\ Len(att'.calls) <= 2
      ]_vars

\* the unset batch size (effective 64) was halved twice and the whole normal
\* ladder was walked: six iterations, then the loop was left
C34_Witness ==
    /\ pc = "raised"
    /\ cfg.num_batch = 0
    /\ Len(used) = 6
    /\ Len(used) = MaxAttempts

(***************************************************************************)
(* C35. The batch size is never reset or increased within an invocation:   *)
(* the effective batch size of an iteration is at most that of the one     *)
(* before, and a scale is attempted again only from a batch size above the *)
(* floor, so once the floor has been reached every later scale gets        *)
(* exactly one iteration.                                                  *)
(***************************************************************************)
C35_BatchNeverReset ==
    /\ \A i \in 1..(Len(used) - 1) :
          /\ EffBatch(used[i + 1].batch) <= EffBatch(used[i].batch)
          /\ used[i + 1].scale < used[i].scale => used[i + 1].batch = used[i].batch
    /\ \A i, j \in 1..Len(used) :
          (i < j /\ used[i].scale = used[j].scale) =>
              /\ EffBatch(used[i].batch) > 16
              /\ EffBatch(used[j].batch) < EffBatch(used[i].batch)
    /\ \A i, j \in 1..Len(used) :
          (i < j /\ EffBatch(used[i].batch) <= 16) =>
              /\ used[j].batch = used[i].batch
              /\ used[j].scale < used[i].scale

\* the batch went 64, 32, 16 at the first scale, then each of the three smaller
\* scales failed once with a retriable error at batch 16
C35_Witness ==
    /\ pc = "raised"
    /\ RetriableFailure(outcome.err)
    /\ Len(used) = 6
    /\ \A i \in 1..3 : used[i].scale = 60
    /\ used[1].batch = 64 /\ used[2].batch = 32
    /\ \A i \in 3..6 : used[i].batch = 16
    /\ used[4].scale = 50 /\ used[5].scale = 40 /\ used[6].scale = 30

(***************************************************************************)
(* C36. Force-bypass skips reads but not writes: an invocation with        *)
(* --force-new returns no cached result and reaches the call of the        *)
(* inference client, whatever the cache holds; when the inference          *)
(* succeeds, the result file and the index entry of the request are        *)
(* written.                                                                *)
(***************************************************************************)
\* the index held a valid result for the request's FastKey before the invocation
ValidCachedFor(run) ==
    /\ run.index_ok_before
    /\ \E r \in run.results_before : r.ck \in Indexed(run) /\ r.valid

C36_ForceBypass ==
    (job.force_new /\ last_run.n > 0) =>
        /\ ~last_run.fast_hit /\ ~last_run.content_hit
        /\ last_run.called
        /\ last_run.exit = "ok" =>
              /\ \E r \in results : r.ck = last_run.ck /\ r.valid
              /\ last_run.ck \in IndexGet(ReadIndex(index_ok, index), last_run.fk)

\* the reads alone: with --force-new no lookup is made and no cached result is
\* returned, and an invocation that gets through mirroring calls the client
C36_ForceSkipsReads ==
    (job.force_new /\ last_run.n > 0) =>
        /\ ~last_run.fast_hit /\ ~last_run.content_hit
        /\ Places(last_run, "fast_lookup") = {}
        /\ Places(last_run, "content_lookup") = {}
        /\ last_run.exit # "crash" => last_run.called

\* a forced invocation ran although a valid result was cached for its key
C36_Case == job.force_new /\ last_run.n > 0 /\ ValidCachedFor(last_run)

\* no forced invocation gets an answer from the client
C36_ForcedNeverSucceeds == (job.force_new /\ last_run.n > 0) => last_run.exit # "ok"

(***************************************************************************)
(* C37. A failed result write leaves the index unchanged: when the write   *)
(* of the result file fails in the commit section of screen_explain.py,    *)
(* the index file is not rewritten and holds no new entry for the          *)
(* request's FastKey.  The commit section runs only after the client has   *)
(* returned; C37_CommitNeverReached says that no invocation of             *)
(* screen_explain.py gets there, so the case of the claim does not occur.  *)
(***************************************************************************)
C37_Case ==
    /\ job.script = "screen_explain"
    /\ last_run.called
    /\ last_run.exit # "error"

C37_CommitNeverReached ==
    (job.script = "screen_explain" /\ last_run.n > 0) =>
        /\ last_run.called => last_run.exit = "error"
        /\ Places(last_run, "write_result") = {}
        /\ Places(last_run, "write_index") = {}
        /\ index = last_run.index_before
        /\ results = last_run.results_before

C38_SizeBoundFromFour == cc.max_size >= 4 => Len(cc.cache) <= cc.max_size

\* a full cache of four entries lost its oldest entry to a set of a fifth key
C38_Evicted ==
    /\ cc.max_size = 4
    /\ Len(cc.cache) = 3
    /\ cc.lock = 0
    /\ cc.clock = ttl_hours
    /\ \A i \in 1..3 : cc.cache[i].ts = 0

====
